---------------------------- MODULE Spec2Model ----------------------------
(***************************************************************************)
(* Model of the psychopy-apparatus host library: the COBS framing codec,   *)
(* the message codec with its XOR checksum (utils/protocol.py) and the     *)
(* transport session of hardware/apparatusDevice.py (background reader,    *)
(* sequence numbers, wait for ACK/NACK).                                   *)
(*                                                                         *)
(* Bytes are integers 0..255, byte strings are sequences of bytes.         *)
(* Python indices are 0-based, the sequences here are 1-based: a Python    *)
(* index k is the position k + 1.                                          *)
(***************************************************************************)
EXTENDS Integers, Sequences, FiniteSets, TLC

VARIABLES
    cobs_in,        \* SpecCobs: the byte string handed to cobs_encode
    cobs_frame,     \* SpecCobs: cobs_encode's result
    cobs_out,       \* SpecCobs: cobs_decode's result
    cobs_pc,        \* SpecCobs: "input" | "encoded" | "decoded"
    msg_in,         \* SpecMsg: the arguments of build_message
    msg_raw,        \* SpecMsg: the bytes handed to parse_message
    msg_touched,    \* SpecMsg, SpecLen: 0, or the position of the first byte changed
    msg_parsed,     \* SpecMsg: parse_message's result
    msg_pc,         \* SpecMsg: "input" | "built" | "parsed"
    seq_counter,    \* ApparatusDevice._seq_counter
    link,           \* the messages written to the serial link, in order
    buffer,         \* ApparatusProtocol._buffer
    responses,      \* ApparatusProtocol._responses, the shared response list
    created,        \* how many responses the reader has created so far
    rx_calls,       \* how many data_received calls the reader has served
    rx_data,        \* the bytes handed to the latest data_received call
    rx_pos,         \* how many of them its "for byte in data" loop has passed
    clock,          \* ApparatusProtocol._clock.getTime(), in ticks
    pc,             \* the caller: "idle" | "wait_head" | "wait_scan" | "ack_done" | "led_sleep"
                    \* or between two steps of a start or stop ("reed_stop_send", ...)
    call,           \* the API call the caller is in
    expected_seq,   \* _wait_for_ack: expected_seq
    snapshot,       \* _wait_for_ack: responses (the copy being scanned)
    waited,         \* _wait_for_ack: time.time() - start_time, in ticks
    wait_base,      \* the value of created when the wait started
    matched,        \* _wait_for_ack: the response it removed, or NoResponse
    ack_result,     \* _wait_for_ack: its return value
    ret,            \* the return value of the last API call that returned
    now,            \* time.monotonic(), in ticks
    last_send_time, \* ApparatusDevice._last_send_time
    force,          \* Apparatus: the force engine and its data
    session_base,   \* the value of created when startForceMeasurement last cleared
    unscanned,      \* uids of the force data appended while Measuring (and outside a
                    \* restart), not yet passed by a scan
    reed,           \* Apparatus: the reed engine and its data
    status,         \* Apparatus.status: "NOT_STARTED" | "STARTED" | "FINISHED"
    enc_in,         \* SpecEnc: the arguments of a payload encoder
    enc_out,        \* SpecEnc: its result
    enc_pc          \* SpecEnc: "input" | "encoded"

cobs_vars == <<cobs_in, cobs_frame, cobs_out, cobs_pc>>
msg_vars == <<msg_in, msg_raw, msg_touched, msg_parsed, msg_pc>>
reader_vars == <<buffer, responses, created, rx_calls, rx_data, rx_pos, clock>>
caller_vars == <<pc, call, expected_seq, snapshot, waited, wait_base, matched,
                 ack_result, ret>>
dev_vars == <<seq_counter, link, reader_vars, caller_vars>>
enc_vars == <<enc_in, enc_out, enc_pc>>
app_vars == <<now, last_send_time, status, force, session_base, unscanned, reed>>
\* What the steps of the device leave alone.
outer_vars == <<cobs_vars, msg_vars, enc_vars, app_vars>>
vars == <<cobs_vars, msg_vars, enc_vars, dev_vars, app_vars>>

(***************************************************************************)
(* Protocol constants (utils/protocol.py).                                 *)
(***************************************************************************)
ADDR_PC == 1
ADDR_SERVER == 2
ADDR_CLIENT == 3
CMD_LED_SET_N == 16
CMD_LED_SHOW == 17
CMD_FORCE_START == 3
CMD_FORCE_STOP == 4
MSG_ACK == 128
MSG_NACK == 129
DATA_FORCE == 144
DATA_REED == 145
FLAG_ACK_REQUIRED == 1
ERR_BAD_LEN == 1
ERR_BAD_MSG == 2
ERR_BAD_PAYLOAD == 3
HEADER_SIZE == 11
\* The code byte at which cobs_encode closes a block and below which
\* cobs_decode restores a zero (0xFF).
COBS_FULL == 255
\* The delimiter byte (ApparatusProtocol.DELIMITER, and the byte cobs_encode appends).
DELIMITER == 0
\* Python's None.
None == <<>>

Min(a, b) == IF a <= b THEN a ELSE b

(***************************************************************************)
(* Bitwise XOR of two naturals (Python's ^ on bytes).                      *)
(***************************************************************************)
RECURSIVE BitXor(_, _)
BitXor(a, b) ==
    IF a = 0 THEN b
    ELSE IF b = 0 THEN a
    ELSE (((a % 2) + (b % 2)) % 2) + (2 * BitXor(a \div 2, b \div 2))

(***************************************************************************)
(* cobs_encode.  cobs_encode_step is one pass of the body of                *)
(* "for byte in data"; cobs_encode_loop runs it over data[lo..hi] in order. *)
(* The range is halved, and the left half's state is read before the right  *)
(* half starts, only to keep the evaluation's nesting logarithmic in the    *)
(* length: code is at least 1 throughout, so the ELSE branch is never taken.*)
(***************************************************************************)
\* cobs_encode_step without the "if code == 0xFF" test: a block is never
\* closed when it is full.
cobs_encode_step_no_split(st, byte) ==
    IF byte = 0
    THEN [output |-> Append([st.output EXCEPT ![st.code_index] = st.code], 0),
          code_index |-> Len(st.output) + 1,
          code |-> 1]
    ELSE [output |-> Append(st.output, byte),
          code_index |-> st.code_index,
          code |-> st.code + 1]

cobs_encode_step(st, byte) ==
    IF byte = 0
    THEN [output |-> Append([st.output EXCEPT ![st.code_index] = st.code], 0),
          code_index |-> Len(st.output) + 1,
          code |-> 1]
    ELSE IF st.code + 1 = COBS_FULL
         THEN [output |-> Append([Append(st.output, byte)
                                     EXCEPT ![st.code_index] = st.code + 1], 0),
               code_index |-> Len(st.output) + 2,
               code |-> 1]
         ELSE [output |-> Append(st.output, byte),
               code_index |-> st.code_index,
               code |-> st.code + 1]

RECURSIVE cobs_encode_loop(_, _, _, _)
cobs_encode_loop(data, lo, hi, st) ==
    IF lo > hi THEN st
    ELSE IF lo = hi THEN cobs_encode_step(st, data[lo])
    ELSE LET mid == (lo + hi) \div 2
             left == cobs_encode_loop(data, lo, mid, st)
         IN IF left.code >= 1
            THEN cobs_encode_loop(data, mid + 1, hi, left)
            ELSE left

cobs_encode(data) ==
    LET st == cobs_encode_loop(data, 1, Len(data),
                  [output |-> <<0>>, code_index |-> 1, code |-> 1])
    IN Append([st.output EXCEPT ![st.code_index] = st.code], DELIMITER)

(***************************************************************************)
(* cobs_decode.  cobs_decode_block is one pass of the body of               *)
(* "while i < len(data)" (a no-op once the loop has been left): st.i is the *)
(* position of the next code byte, st.done records a return from inside the *)
(* loop.  The inner "for _ in range(code - 1)" copies data bytes until      *)
(* code - 1 are copied or the data ends (and then returns): a slice.        *)
(* cobs_decode_loop runs the body n times; the loop runs at most len(data)  *)
(* times, since every pass consumes a byte.                                 *)
(***************************************************************************)
\* cobs_decode_block without the "code < 0xFF" test: a zero is restored
\* after a full block too.
cobs_decode_block_zero_after_full(data, st) ==
    IF st.done \/ st.i > Len(data) THEN st
    ELSE LET code == data[st.i]
             i1 == st.i + 1
             avail == Len(data) - i1 + 1
             take == Min(code - 1, avail)
             copied == st.output \o SubSeq(data, i1, i1 + take - 1)
             i2 == i1 + take
         IN IF code = 0 THEN [st EXCEPT !.done = TRUE]
            ELSE IF take < code - 1
                 THEN [output |-> copied, i |-> i2, done |-> TRUE]
                 ELSE [output |-> IF i2 <= Len(data)
                                  THEN Append(copied, 0) ELSE copied,
                       i |-> i2, done |-> FALSE]

cobs_decode_block(data, st) ==
    IF st.done \/ st.i > Len(data) THEN st
    ELSE LET code == data[st.i]
             i1 == st.i + 1
             avail == Len(data) - i1 + 1
             take == Min(code - 1, avail)
             copied == st.output \o SubSeq(data, i1, i1 + take - 1)
             i2 == i1 + take
         IN IF code = 0 THEN [st EXCEPT !.done = TRUE]
            ELSE IF take < code - 1
                 THEN [output |-> copied, i |-> i2, done |-> TRUE]
                 ELSE [output |-> IF code < COBS_FULL /\ i2 <= Len(data)
                                  THEN Append(copied, 0) ELSE copied,
                       i |-> i2, done |-> FALSE]

RECURSIVE cobs_decode_loop(_, _, _)
cobs_decode_loop(data, n, st) ==
    IF n = 0 THEN st
    ELSE IF n = 1 THEN cobs_decode_block(data, st)
    ELSE LET left == cobs_decode_loop(data, n \div 2, st)
         IN IF left.i >= 1
            THEN cobs_decode_loop(data, n - (n \div 2), left)
            ELSE left

cobs_decode(data) ==
    IF Len(data) = 0 THEN <<>>
    ELSE cobs_decode_loop(data, Len(data),
             [output |-> <<>>, i |-> 1, done |-> FALSE]).output

(***************************************************************************)
(* calculate_checksum: the running XOR of the header bytes, then of the     *)
(* payload bytes.                                                           *)
(***************************************************************************)
\* The XOR of two bytes, tabulated once from BitXor.
XorTable == [a \in 0..255 |-> [b \in 0..255 |-> BitXor(a, b)]]

RECURSIVE xor_bytes(_, _, _)
xor_bytes(bytes, k, checksum) ==
    IF k > Len(bytes) THEN checksum
    ELSE xor_bytes(bytes, k + 1, XorTable[checksum][bytes[k]])

calculate_checksum(header_bytes, payload) ==
    xor_bytes(payload, 1, xor_bytes(header_bytes, 1, 0))

(***************************************************************************)
(* Sequence numbers are Python integers up to 2^32, wider than the          *)
(* integers of the model checker: a sequence number n is held as the pair   *)
(* <<n \div 65536, n % 65536>>.  The high part may reach 65536, which is    *)
(* how a value above 0xFFFFFFFF shows.                                      *)
(***************************************************************************)
U32(n) == <<n \div 65536, n % 65536>>
SEQ_MAX == <<65535, 65535>>
u32_succ(s) == IF s[2] = 65535 THEN <<s[1] + 1, 0>> ELSE <<s[1], s[2] + 1>>
u32_gt(a, b) == a[1] > b[1] \/ (a[1] = b[1] /\ a[2] > b[2])

(***************************************************************************)
(* struct.pack / struct.unpack of little-endian unsigned fields.            *)
(***************************************************************************)
pack_u16(v) == <<v % 256, (v \div 256) % 256>>
pack_u32(s) == pack_u16(s[2]) \o pack_u16(s[1])
unpack_u16(b, k) == b[k] + (256 * b[k + 1])
unpack_u32(b, k) == <<unpack_u16(b, k + 2), unpack_u16(b, k)>>

\* struct.pack('<BIHBBB', msg_type, seq, payload_len, src, dst, flags)
pack_header(msg_type, seq, payload_len, src, dst, flags) ==
    <<msg_type>> \o pack_u32(seq) \o pack_u16(payload_len) \o <<src, dst, flags>>

\* build_message with the checksum taken over the header alone.
build_message_header_checksum(msg_type, seq, payload, dst, flags) ==
    LET header_temp == pack_header(msg_type, seq, Len(payload), ADDR_PC, dst, flags)
        checksum == calculate_checksum(header_temp, <<>>)
    IN header_temp \o <<checksum>> \o payload

build_message(msg_type, seq, payload, dst, flags) ==
    LET header_temp == pack_header(msg_type, seq, Len(payload), ADDR_PC, dst, flags)
        checksum == calculate_checksum(header_temp, payload)
    IN header_temp \o <<checksum>> \o payload

\* parse_message without the comparison of the two checksums.
parse_message_unchecked(data) ==
    IF Len(data) < HEADER_SIZE THEN None
    ELSE LET payload_len == unpack_u16(data, 6)
             payload == SubSeq(data, HEADER_SIZE + 1,
                               Min(HEADER_SIZE + payload_len, Len(data)))
         IN <<[msg_type |-> data[1],
               seq |-> unpack_u32(data, 2),
               payload_len |-> payload_len,
               src |-> data[8],
               dst |-> data[9],
               flags |-> data[10],
               checksum |-> data[11]],
              payload>>

parse_message(data) ==
    IF Len(data) < HEADER_SIZE THEN None
    ELSE LET payload_len == unpack_u16(data, 6)
             checksum == data[11]
             payload == SubSeq(data, HEADER_SIZE + 1,
                               Min(HEADER_SIZE + payload_len, Len(data)))
             header_temp == SubSeq(data, 1, HEADER_SIZE - 1)
             expected_checksum == calculate_checksum(header_temp, payload)
         IN IF checksum # expected_checksum THEN None
            ELSE <<[msg_type |-> data[1],
                    seq |-> unpack_u32(data, 2),
                    payload_len |-> payload_len,
                    src |-> data[8],
                    dst |-> data[9],
                    flags |-> data[10],
                    checksum |-> checksum],
                   payload>>

(***************************************************************************)
(* LED payload encoders.  A color argument is either one shared             *)
(* (r, g, b) tuple, [shared |-> TRUE, rgb |-> <<r, g, b>>], or a list of    *)
(* tuples, [shared |-> FALSE, list |-> <<<<r, g, b>>, ...>>]: the field     *)
(* shared is the outcome of the isinstance test of encode_led_payload_auto. *)
(* A raised ValueError is the value ValueError, a raised IndexError the      *)
(* value IndexError.                                                        *)
(***************************************************************************)
ValueError == <<-1>>
IndexError == <<-2>>

encode_led_payload_format_a(holes, r, g, b) ==
    <<Len(holes)>> \o holes \o <<r, g, b>>

RECURSIVE format_b_quads(_, _, _)
format_b_quads(holes, colors, k) ==
    IF k > Min(Len(holes), Len(colors)) THEN <<>>
    ELSE <<holes[k]>> \o colors[k] \o format_b_quads(holes, colors, k + 1)

encode_led_payload_format_b(holes, colors) ==
    IF Len(holes) # Len(colors) THEN ValueError
    ELSE <<Len(holes)>> \o format_b_quads(holes, colors, 1)

\* encode_led_payload_auto with any() where the source has all().
encode_led_payload_auto_any(holes, colors) ==
    IF Len(holes) = 0 THEN ValueError
    ELSE IF colors.shared
         THEN encode_led_payload_format_a(holes, colors.rgb[1], colors.rgb[2],
                                          colors.rgb[3])
         ELSE IF Len(colors.list) = 0 THEN encode_led_payload_format_b(holes, colors.list)
         ELSE IF \E k \in 1..Len(colors.list) : colors.list[k] = colors.list[1]
              THEN encode_led_payload_format_a(holes, colors.list[1][1],
                       colors.list[1][2], colors.list[1][3])
              ELSE encode_led_payload_format_b(holes, colors.list)

\* all(c == colors[0] for c in colors) holds of an empty list, whose
\* colors[0] then raises IndexError.
encode_led_payload_auto(holes, colors) ==
    IF Len(holes) = 0 THEN ValueError
    ELSE IF colors.shared
         THEN encode_led_payload_format_a(holes, colors.rgb[1], colors.rgb[2],
                                          colors.rgb[3])
         ELSE IF \A k \in 1..Len(colors.list) : colors.list[k] = colors.list[1]
              THEN IF Len(colors.list) = 0 THEN IndexError
                   ELSE encode_led_payload_format_a(holes, colors.list[1][1],
                            colors.list[1][2], colors.list[1][3])
              ELSE encode_led_payload_format_b(holes, colors.list)

(***************************************************************************)
(* encode_force_start_payload.  A string is the sequence of its character   *)
(* codes.                                                                   *)
(***************************************************************************)
\* str.lower() on ASCII: 'A'..'Z' become 'a'..'z'.
lower(str) == [k \in 1..Len(str) |-> IF str[k] \in 65..90 THEN str[k] + 32 ELSE str[k]]

\* device_map: 'white', 'blue', 'both' and their selectors.
device_map ==
    {<<<<119, 104, 105, 116, 101>>, 0>>,
     <<<<98, 108, 117, 101>>, 1>>,
     <<<<98, 111, 116, 104>>, 2>>}

\* int(1_000_000 / rate_hz) for a positive integer rate: the float quotient
\* cut off at the decimal point.
period_us_of(rate_hz) == 1000000 \div rate_hz

\* encode_force_start_payload taking any other string for 'both'.
encode_force_start_payload_unchecked(rate_hz, device) ==
    LET period_us == period_us_of(rate_hz)
        device_lower == lower(device)
    IN IF \A e \in device_map : e[1] # device_lower
       THEN pack_u32(U32(period_us)) \o <<2>>
       ELSE LET device_selector == (CHOOSE e \in device_map : e[1] = device_lower)[2]
            IN pack_u32(U32(period_us)) \o <<device_selector>>

encode_force_start_payload(rate_hz, device) ==
    LET period_us == period_us_of(rate_hz)
        device_lower == lower(device)
    IN IF \A e \in device_map : e[1] # device_lower THEN ValueError
       ELSE LET device_selector == (CHOOSE e \in device_map : e[1] = device_lower)[2]
            IN pack_u32(U32(period_us)) \o <<device_selector>>

(***************************************************************************)
(* The reader (ApparatusProtocol).  A response is a record; its uid stands  *)
(* for the identity of the Python object: the reader's k-th response has    *)
(* uid k.                                                                   *)
(***************************************************************************)
NoResponse == [uid |-> 0, t |-> 0, value |-> <<>>, msg_type |-> 0, seq |-> U32(0),
               payload |-> <<>>]

\* _process_frame: the response list after the frame, whose response, if
\* one is created, gets the identity uid; t is self._clock.getTime().
process_frame(frame, rs, uid, t) ==
    LET decoded == cobs_decode(frame)
    IN IF Len(decoded) < 11 THEN rs
       ELSE LET result == parse_message(decoded)
            IN IF result = None THEN rs
               ELSE Append(rs, [uid |-> uid,
                                t |-> t,
                                value |-> decoded,
                                msg_type |-> result[1].msg_type,
                                seq |-> result[1].seq,
                                payload |-> result[2]])

\* data_received: one pass of the body of "for byte in data".
data_received_byte(st, byte) ==
    IF byte = DELIMITER
    THEN IF Len(st.buffer) > 0
         THEN LET rs == process_frame(st.buffer, st.responses, st.created + 1,
                                        st.clock)
              IN [clock |-> st.clock,
                  buffer |-> <<>>,
                  responses |-> rs,
                  created |-> IF Len(rs) > Len(st.responses)
                              THEN st.created + 1 ELSE st.created]
         ELSE st
    ELSE [st EXCEPT !.buffer = Append(@, byte)]

\* data_received_upto starting every call with an empty buffer.
RECURSIVE data_received_upto_fresh(_, _, _)
data_received_upto_fresh(data, k, st) ==
    LET cur == IF k = 1 THEN [st EXCEPT !.buffer = <<>>] ELSE st
    IN IF k > Len(data) THEN [st |-> cur, pos |-> Len(data)]
       ELSE IF data[k] = DELIMITER /\ Len(cur.buffer) > 0
            THEN [st |-> data_received_byte(cur, data[k]), pos |-> k]
            ELSE data_received_upto_fresh(data, k + 1, data_received_byte(cur, data[k]))

\* data_received: the passes of "for byte in data" from position k up to and
\* including the first one that calls _process_frame, or up to the end of
\* data; pos is the position of the last byte passed.
RECURSIVE data_received_upto(_, _, _)
data_received_upto(data, k, st) ==
    IF k > Len(data) THEN [st |-> st, pos |-> Len(data)]
    ELSE IF data[k] = DELIMITER /\ Len(st.buffer) > 0
         THEN [st |-> data_received_byte(st, data[k]), pos |-> k]
         ELSE data_received_upto(data, k + 1, data_received_byte(st, data[k]))

\* data_received: the whole loop, run without interruption.
RECURSIVE data_received_loop(_, _, _)
data_received_loop(data, k, st) ==
    IF k > Len(data) THEN st
    ELSE data_received_loop(data, k + 1, data_received_byte(st, data[k]))

(***************************************************************************)
(* The device (ApparatusDevice), with simulate = False.                     *)
(***************************************************************************)
\* _get_next_seq wrapping to 0 instead of 1.
get_next_seq_wrap_to_zero(counter) ==
    LET n == u32_succ(counter)
    IN IF u32_gt(n, SEQ_MAX) THEN U32(0) ELSE n

\* _get_next_seq: the value of _seq_counter after the call (the call
\* returns the value before it).
get_next_seq(counter) ==
    LET n == u32_succ(counter)
    IN IF u32_gt(n, SEQ_MAX) THEN U32(1) ELSE n

\* _send_message: what goes out for sequence number seq.  encoded is the
\* byte string written to the link; the other fields are the arguments it
\* was built from (the line _send_message logs) and the time of the write.
send_message(msg_type, seq, payload, dst) ==
    [seq |-> seq, msg_type |-> msg_type, dst |-> dst, payload |-> payload,
     at |-> now,
     encoded |-> cobs_encode(build_message(msg_type, seq, payload, dst,
                                           FLAG_ACK_REQUIRED))]

\* The test of the scan without the comparison of the sequence numbers.
is_ack_for_any_seq(response, seq) ==
    response.msg_type \in {MSG_ACK, MSG_NACK}

\* _wait_for_ack: the test of "for response in responses".
is_ack_for(response, seq) ==
    response.seq = seq /\ response.msg_type \in {MSG_ACK, MSG_NACK}

\* The position of the first response of the copy that passes the test, or 0.
first_match(rs, seq) ==
    IF \E k \in 1..Len(rs) : is_ack_for(rs[k], seq)
    THEN CHOOSE k \in 1..Len(rs) :
             /\ is_ack_for(rs[k], seq)
             /\ \A j \in 1..(k - 1) : ~is_ack_for(rs[j], seq)
    ELSE 0

\* The list read as a queue: everything up to and including x is dropped.
list_drop_through(lst, x) ==
    IF \E k \in 1..Len(lst) : lst[k] = x
    THEN LET k == CHOOSE i \in 1..Len(lst) :
                      lst[i] = x /\ \A j \in 1..(i - 1) : lst[j] # x
         IN SubSeq(lst, k + 1, Len(lst))
    ELSE lst

\* list.remove(x): the list without its first element that is x.
list_remove(lst, x) ==
    IF \E k \in 1..Len(lst) : lst[k] = x
    THEN LET k == CHOOSE i \in 1..Len(lst) :
                      lst[i] = x /\ \A j \in 1..(i - 1) : lst[j] # x
         IN SubSeq(lst, 1, k - 1) \o SubSeq(lst, k + 1, Len(lst))
    ELSE lst

\* The response removed from the scanned copy, which then replaces the
\* shared list.
wait_remove_from_copy(shared, copy, response) == list_remove(copy, response)

\* self._protocol._responses.remove(response): the shared list (not the
\* copy that was scanned) loses the response.
wait_remove(shared, copy, response) == list_remove(shared, response)

\* A loop that never leaves on the clock.
timed_out_never(elapsed, timeout) == FALSE

\* The negation of the loop test "time.time() - start_time < timeout".
timed_out(elapsed, timeout) == ~(elapsed < timeout)

\* ApparatusResponse.is_ack
is_ack(response) == response.msg_type = MSG_ACK

\* ApparatusResponse.get_error_code
get_error_code(response) ==
    IF response.msg_type = MSG_NACK /\ Len(response.payload) > 0
    THEN response.payload[1] ELSE 0

(***************************************************************************)
(* Inert values of each group of variables, for the specifications that do  *)
(* not use the group.                                                       *)
(***************************************************************************)
CobsIdle ==
    /\ cobs_in = <<>>
    /\ cobs_frame = <<>>
    /\ cobs_out = <<>>
    /\ cobs_pc = "off"

MsgIdle ==
    /\ msg_in = [msg_type |-> 0, seq |-> U32(0), payload |-> <<>>, dst |-> 0, flags |-> 0]
    /\ msg_raw = <<>>
    /\ msg_touched = 0
    /\ msg_parsed = None
    /\ msg_pc = "off"

NoCall == [name |-> "none", stage |-> "none", show |-> FALSE]

EncIdle ==
    /\ enc_in = <<>>
    /\ enc_out = <<>>
    /\ enc_pc = "off"

\* Apparatus.__init__: the force engine and its data.
ForceNew ==
    [measuring |-> FALSE,
     start_response_count |-> 0,
     times |-> <<>>,
     responses |-> <<>>,
     whiteForceValues |-> <<>>,
     blueForceValues |-> <<>>,
     whiteForceTimestamps |-> <<>>,
     blueForceTimestamps |-> <<>>,
     whiteForce |-> 0,
     blueForce |-> 0,
     maxWhiteForce |-> 0,
     maxBlueForce |-> 0]

\* Apparatus.__init__: the reed engine and its data.  A dict is a function
\* on its keys; a value that may be None is None or a one-element sequence.
ReedNew ==
    [measuring |-> FALSE,
     monitored_holes |-> <<>>,
     start_response_count |-> 0,
     last_states |-> <<>>,
     last_timestamp |-> None,
     insertion_counts |-> <<>>,
     removal_counts |-> <<>>,
     active_durations |-> <<>>,
     last_insert_time |-> <<>>,
     reedTimes |-> <<>>,
     reedHoles |-> <<>>,
     reedActions |-> <<>>,
     reedSummary |-> <<>>]

\* ApparatusDevice.__init__ sets _last_send_time to the time of construction.
AppNew ==
    /\ now = 0
    /\ last_send_time = 0
    /\ force = ForceNew
    /\ session_base = 0
    /\ unscanned = {}
    /\ reed = ReedNew
    /\ status = "NOT_STARTED"

DevIdle ==
    /\ seq_counter = U32(1)
    /\ link = <<>>
    /\ buffer = <<>>
    /\ responses = <<>>
    /\ created = 0
    /\ rx_calls = 0
    /\ rx_data = <<>>
    /\ rx_pos = 0
    /\ clock = 0
    /\ pc = "off"
    /\ call = NoCall
    /\ expected_seq = U32(0)
    /\ snapshot = <<>>
    /\ waited = 0
    /\ wait_base = 0
    /\ matched = NoResponse
    /\ ack_result = FALSE
    /\ ret = "none"

(***************************************************************************)
(* SpecCobs: cobs_encode, then cobs_decode of the frame without its         *)
(* trailing delimiter, on byte strings made of up to MaxPieces pieces: a    *)
(* zero byte, a non-zero byte, the byte 0xFF, or a run of 254 non-zero      *)
(* bytes (the longest run one code byte describes).                         *)
(***************************************************************************)
MaxPieces == 3

RunOf(n, byte) == [k \in 1..n |-> byte]

CobsPieces == {<<0>>, <<1>>, <<255>>, RunOf(COBS_FULL - 1, 7)}

RECURSIVE Flatten(_)
Flatten(pieces) ==
    IF Len(pieces) = 0 THEN <<>> ELSE Head(pieces) \o Flatten(Tail(pieces))

CobsInputs ==
    {Flatten(p) : p \in UNION {[1..n -> CobsPieces] : n \in 0..MaxPieces}}

InitCobs ==
    /\ cobs_in \in CobsInputs
    /\ cobs_frame = <<>>
    /\ cobs_out = <<>>
    /\ cobs_pc = "input"
    /\ MsgIdle
    /\ EncIdle
    /\ DevIdle
    /\ AppNew

Encode ==
    /\ cobs_pc = "input"
    /\ cobs_frame' = cobs_encode(cobs_in)
    /\ cobs_pc' = "encoded"
    /\ UNCHANGED <<cobs_in, cobs_out, msg_vars, enc_vars, dev_vars, app_vars>>

\* The receiver strips the trailing delimiter before decoding.
Decode ==
    /\ cobs_pc = "encoded"
    /\ cobs_out' = cobs_decode(SubSeq(cobs_frame, 1, Len(cobs_frame) - 1))
    /\ cobs_pc' = "decoded"
    /\ UNCHANGED <<cobs_in, cobs_frame, msg_vars, enc_vars, dev_vars, app_vars>>

NextCobs == Encode \/ Decode

SpecCobs == InitCobs /\ [][NextCobs]_vars

(***************************************************************************)
(* SpecMsg: build_message on every combination of a few field values, then  *)
(* parse_message of the built bytes, as built or with one byte changed.     *)
(***************************************************************************)
MaxPayloadLen == 2

PayloadBytes == {0, 1, 255}
MsgTypes == {CMD_LED_SET_N, MSG_ACK, DATA_FORCE}
MsgSeqs == {U32(1), U32(258), SEQ_MAX}
MsgDsts == {ADDR_SERVER, ADDR_CLIENT}
MsgFlags == {0, FLAG_ACK_REQUIRED}
\* The XOR masks applied to the one byte that is changed.
FlipMasks == {1, 128, 255}

MsgPayloads == UNION {[1..n -> PayloadBytes] : n \in 0..MaxPayloadLen}

MsgInputs ==
    [msg_type : MsgTypes, seq : MsgSeqs, payload : MsgPayloads,
     dst : MsgDsts, flags : MsgFlags]

InitMsg ==
    /\ msg_in \in MsgInputs
    /\ msg_raw = <<>>
    /\ msg_touched = 0
    /\ msg_parsed = None
    /\ msg_pc = "input"
    /\ CobsIdle
    /\ EncIdle
    /\ DevIdle
    /\ AppNew

Build ==
    /\ msg_pc = "input"
    /\ msg_raw' = build_message(msg_in.msg_type, msg_in.seq, msg_in.payload,
                                msg_in.dst, msg_in.flags)
    /\ msg_pc' = "built"
    /\ UNCHANGED <<msg_in, msg_touched, msg_parsed, cobs_vars, enc_vars, dev_vars,
                   app_vars>>

\* The link changes the value of one byte of the built message.
Corrupt ==
    /\ msg_pc = "built"
    /\ msg_touched = 0
    /\ \E k \in 1..Len(msg_raw), m \in FlipMasks :
          /\ msg_raw' = [msg_raw EXCEPT ![k] = BitXor(@, m)]
          /\ msg_touched' = k
    /\ UNCHANGED <<msg_in, msg_parsed, msg_pc, cobs_vars, enc_vars, dev_vars,
                   app_vars>>

Parse ==
    /\ msg_pc = "built"
    /\ msg_parsed' = parse_message(msg_raw)
    /\ msg_pc' = "parsed"
    /\ UNCHANGED <<msg_in, msg_raw, msg_touched, cobs_vars, enc_vars, dev_vars,
                   app_vars>>

NextMsg == Build \/ Corrupt \/ Parse

SpecMsg == InitMsg /\ [][NextMsg]_vars

(***************************************************************************)
(* SpecLen: parse_message of the built bytes, as built, with bytes cut off  *)
(* the end, or with one byte added at the end.                              *)
(***************************************************************************)
\* The link loses the end of the built message: n bytes arrive.
Truncate ==
    /\ msg_pc = "built"
    /\ msg_touched = 0
    /\ \E n \in 0..(Len(msg_raw) - 1) :
          /\ msg_raw' = SubSeq(msg_raw, 1, n)
          /\ msg_touched' = n + 1
    /\ UNCHANGED <<msg_in, msg_parsed, msg_pc, cobs_vars, enc_vars, dev_vars,
                   app_vars>>

\* One more byte arrives after the built message.
Extend ==
    /\ msg_pc = "built"
    /\ msg_touched = 0
    /\ \E b \in PayloadBytes :
          /\ msg_raw' = Append(msg_raw, b)
          /\ msg_touched' = Len(msg_raw) + 1
    /\ UNCHANGED <<msg_in, msg_parsed, msg_pc, cobs_vars, enc_vars, dev_vars,
                   app_vars>>

NextLen == Build \/ Truncate \/ Extend \/ Parse

SpecLen == InitMsg /\ [][NextLen]_vars

(***************************************************************************)
(* Spec: one device.  The reader thread serves data_received calls while    *)
(* the caller thread issues LED commands and waits for their ACKs.          *)
(***************************************************************************)
MaxSends == 2       \* messages written to the link in one run
MaxRx == 2          \* data_received calls in one run
TimeoutTicks == 1   \* the ACK timeout, in clock ticks

\* What the apparatus puts on the wire: a message from the client to the PC,
\* framed.
device_message(msg_type, seq, payload) ==
    LET header_temp == pack_header(msg_type, seq, Len(payload), ADDR_CLIENT,
                                   ADDR_PC, 0)
    IN header_temp \o <<calculate_checksum(header_temp, payload)>> \o payload

AckFrame(seq) == cobs_encode(device_message(MSG_ACK, seq, <<>>))
NackFrame(seq, code) == cobs_encode(device_message(MSG_NACK, seq, <<code>>))
\* time_us = 1, value = 5, device = 0 (white)
DataFrame(seq) == cobs_encode(device_message(DATA_FORCE, seq, <<1, 0, 0, 0, 5, 0, 0>>))
\* An ACK whose checksum byte arrives changed.
BadChecksumFrame ==
    cobs_encode([device_message(MSG_ACK, U32(1), <<>>) EXCEPT ![HEADER_SIZE] = BitXor(@, 1)])
\* A frame that decodes to fewer bytes than a header.
ShortFrame == cobs_encode(<<MSG_ACK, 1, 0>>)

NackCodes == {ERR_BAD_LEN, 200}

\* The sequence numbers of the messages written to the link.
SentSeqs == {link[k].seq : k \in 1..Len(link)}

\* The sequence numbers a run can send: from 1 on, or from 0xFFFFFFFF on.
SeqPool == {U32(k) : k \in 1..MaxSends} \cup {SEQ_MAX}

\* The ACK and the NACKs the device may send for sequence number q.
AckChunks == [q \in SeqPool |->
    {AckFrame(q)} \cup {NackFrame(q, code) : code \in NackCodes}]

\* Two data frames with a short frame between them, arriving in one read.
DataChunks == [q \in SeqPool |-> {DataFrame(q) \o ShortFrame \o DataFrame(q)}]

\* The byte strings the serial port may hand to one data_received call: the
\* device answers (or reports data under) sequence numbers it was sent.
WireChunks ==
    UNION {AckChunks[q] \cup DataChunks[q] : q \in SentSeqs}
    \cup {BadChecksumFrame}

\* The answers to the command the caller is waiting on.
AnswerChunks == IF expected_seq \in SentSeqs THEN AckChunks[expected_seq] ELSE {}

LedInput(holes, colors) == [holes |-> holes, colors |-> colors]
SharedColor(r, g, b) == [shared |-> TRUE, rgb |-> <<r, g, b>>]
ColorList(list) == [shared |-> FALSE, list |-> list]

\* The arguments of setLedColors: a shared color; no holes; a list of three
\* different colors for two holes; a list of three equal colors for two
\* holes; an empty list.
LedInputs ==
    {LedInput(<<3, 7>>, SharedColor(10, 20, 30)),
     LedInput(<<>>, SharedColor(10, 20, 30)),
     LedInput(<<3, 7>>, ColorList(<<<<10, 20, 30>>, <<40, 50, 60>>, <<0, 0, 0>>>>)),
     LedInput(<<3, 7>>, ColorList(<<<<10, 20, 30>>, <<10, 20, 30>>, <<10, 20, 30>>>>)),
     LedInput(<<3, 7>>, ColorList(<<>>))}

Init ==
    /\ CobsIdle
    /\ MsgIdle
    /\ EncIdle
    /\ AppNew
    /\ seq_counter = U32(1)
    /\ link = <<>>
    /\ buffer = <<>>
    /\ responses = <<>>
    /\ created = 0
    /\ rx_calls = 0
    /\ rx_data = <<>>
    /\ rx_pos = 0
    /\ clock = 0
    /\ pc = "idle"
    /\ call = NoCall
    /\ expected_seq = U32(0)
    /\ snapshot = <<>>
    /\ waited = 0
    /\ wait_base = 0
    /\ matched = NoResponse
    /\ ack_result = FALSE
    /\ ret = "none"

\* The identities of the force-data responses in rs created after the base-th.
force_data_uids(rs, base) ==
    {rs[k].uid : k \in {j \in 1..Len(rs) : rs[j].msg_type = DATA_FORCE /\ rs[j].uid > base}}

\* The reader thread inside data_received(data), the first `from` bytes
\* passed: it goes on to the next _process_frame call, which may append a
\* response to the shared list, or to the end of data.
ReaderStep(data, from) ==
    LET r == data_received_upto(data, from + 1,
                 [buffer |-> buffer, responses |-> responses,
                  created |-> created, clock |-> clock])
    IN /\ buffer' = r.st.buffer
       /\ responses' = r.st.responses
       /\ created' = r.st.created
       /\ rx_pos' = r.pos
       /\ unscanned' = IF force.measuring /\ call.name # "startForceMeasurement"
                        THEN unscanned \cup force_data_uids(r.st.responses, created)
                        ELSE unscanned

\* ApparatusProtocol.data_received(data), on the reader thread, up to its
\* first _process_frame call: the serial port hands over the next bytes when
\* the call before has returned.
DataReceived(data) ==
    /\ pc # "off"
    /\ rx_calls < MaxRx
    /\ rx_pos = Len(rx_data)
    /\ ReaderStep(data, 0)
    /\ rx_calls' = rx_calls + 1
    /\ rx_data' = data
    /\ UNCHANGED <<clock, seq_counter, link, caller_vars, cobs_vars, msg_vars, enc_vars,
                   now, last_send_time, status, force, session_base, reed>>

\* data_received after a _process_frame call: the loop goes on with the
\* bytes that are left.
DataReceivedLoop ==
    /\ pc # "off"
    /\ rx_pos < Len(rx_data)
    /\ ReaderStep(rx_data, rx_pos)
    /\ UNCHANGED <<rx_calls, rx_data, clock, seq_counter, link, caller_vars, cobs_vars,
                   msg_vars, enc_vars, now, last_send_time, status, force,
                   session_base, reed>>

\* The caller enters _wait_for_ack(seq) inside the API call c.
StartWait(seq, c) ==
    /\ pc' = "wait_head"
    /\ call' = c
    /\ expected_seq' = seq
    /\ snapshot' = <<>>
    /\ waited' = 0
    /\ wait_base' = created
    /\ matched' = NoResponse
    /\ ack_result' = FALSE
    /\ ret' = "none"

\* The API call returns v (or raises it) to the caller.
Return(v) ==
    /\ pc' = "idle"
    /\ call' = NoCall
    /\ expected_seq' = U32(0)
    /\ snapshot' = <<>>
    /\ waited' = 0
    /\ wait_base' = 0
    /\ matched' = NoResponse
    /\ ack_result' = FALSE
    /\ ret' = v

Bool(b) == IF b THEN "True" ELSE "False"

\* ApparatusDevice.showLeds(wait_ack), up to its return or its wait.
ShowLeds(wait_ack) ==
    /\ pc = "idle"
    /\ Len(link) + 1 <= MaxSends
    /\ seq_counter' = get_next_seq(seq_counter)
    /\ link' = Append(link, send_message(CMD_LED_SHOW, seq_counter, <<>>, ADDR_CLIENT))
    /\ IF wait_ack
       THEN StartWait(seq_counter, [name |-> "showLeds", stage |-> "show", show |-> FALSE])
       ELSE Return("True")
    /\ UNCHANGED <<reader_vars, outer_vars>>

\* setLedColors(show=True, wait_ack=False) enters time.sleep(0.01) between
\* its two commands: the LED-set is on the link, the LED-show is not yet.
StartSleep(c) ==
    /\ pc' = "led_sleep"
    /\ call' = c
    /\ expected_seq' = U32(0)
    /\ snapshot' = <<>>
    /\ waited' = 0
    /\ wait_base' = 0
    /\ matched' = NoResponse
    /\ ack_result' = FALSE
    /\ ret' = "none"

\* ApparatusDevice.setLedColors(holes, colors, show, wait_ack), up to its
\* return, its first wait, or, without wait_ack, its sleep before showLeds.
SetLedColors(in, show, wait_ack) ==
    /\ pc = "idle"
    /\ Len(link) + (IF show /\ ~wait_ack THEN 2 ELSE 1) <= MaxSends
    /\ LET payload == encode_led_payload_auto(in.holes, in.colors)
           seq2 == get_next_seq(seq_counter)
           set_frame == send_message(CMD_LED_SET_N, seq_counter, payload, ADDR_CLIENT)
       IN IF Len(in.holes) = 0
          THEN Return("True") /\ UNCHANGED <<seq_counter, link>>
          ELSE IF payload = ValueError
          THEN Return("ValueError") /\ UNCHANGED <<seq_counter, link>>
          ELSE IF payload = IndexError
          THEN Return("IndexError") /\ UNCHANGED <<seq_counter, link>>
          ELSE IF wait_ack
          THEN /\ seq_counter' = seq2
               /\ link' = Append(link, set_frame)
               /\ StartWait(seq_counter, [name |-> "setLedColors", stage |-> "set",
                                          show |-> show])
          ELSE IF show
          THEN /\ seq_counter' = seq2
               /\ link' = Append(link, set_frame)
               /\ StartSleep([name |-> "setLedColors", stage |-> "sleep",
                              show |-> TRUE])
          ELSE /\ seq_counter' = seq2
               /\ link' = Append(link, set_frame)
               /\ Return("True")
    /\ UNCHANGED <<reader_vars, outer_vars>>

\* setLedColors(show=True, wait_ack=False) after its sleep:
\* "return self.showLeds(wait_ack=wait_ack)", which sends the LED-show and
\* returns True.
SetLedColorsShow ==
    /\ pc = "led_sleep"
    /\ seq_counter' = get_next_seq(seq_counter)
    /\ link' = Append(link, send_message(CMD_LED_SHOW, seq_counter, <<>>, ADDR_CLIENT))
    /\ Return("True")
    /\ UNCHANGED <<reader_vars, outer_vars>>

\* _wait_for_ack: the loop test fails; log the timeout and return False.
WaitTimeout ==
    /\ pc = "wait_head"
    /\ timed_out(waited, TimeoutTicks)
    /\ pc' = "ack_done"
    /\ ack_result' = FALSE
    /\ UNCHANGED <<call, expected_seq, snapshot, waited, wait_base, matched, ret>>
    /\ UNCHANGED <<seq_counter, link, reader_vars, outer_vars>>

\* _wait_for_ack: the loop test passes; responses = get_responses().
WaitSnapshot ==
    /\ pc = "wait_head"
    /\ ~timed_out(waited, TimeoutTicks)
    /\ snapshot' = responses
    /\ pc' = "wait_scan"
    /\ UNCHANGED <<call, expected_seq, waited, wait_base, matched, ack_result, ret>>
    /\ UNCHANGED <<seq_counter, link, reader_vars, outer_vars>>

\* _wait_for_ack: the scan of the copy finds a response; remove it from the
\* shared list and return.
WaitMatch ==
    /\ pc = "wait_scan"
    /\ first_match(snapshot, expected_seq) # 0
    /\ LET response == snapshot[first_match(snapshot, expected_seq)]
       IN /\ responses' = wait_remove(responses, snapshot, response)
          /\ matched' = response
          /\ ack_result' = is_ack(response)
    /\ pc' = "ack_done"
    /\ snapshot' = <<>>
    /\ UNCHANGED <<call, expected_seq, waited, wait_base, ret>>
    /\ UNCHANGED <<seq_counter, link, buffer, created, rx_calls, rx_data, rx_pos, clock, outer_vars>>

\* _wait_for_ack: the scan of the copy finds nothing; sleep and loop.
WaitSleep ==
    /\ pc = "wait_scan"
    /\ first_match(snapshot, expected_seq) = 0
    /\ pc' = "wait_head"
    /\ snapshot' = <<>>
    /\ UNCHANGED <<call, expected_seq, waited, wait_base, matched, ack_result, ret>>
    /\ UNCHANGED <<seq_counter, link, reader_vars, outer_vars>>

\* Time passes while the caller is in _wait_for_ack.
Tick ==
    /\ pc \in {"wait_head", "wait_scan"}
    /\ waited < TimeoutTicks
    /\ waited' = waited + 1
    /\ UNCHANGED <<pc, call, expected_seq, snapshot, wait_base, matched, ack_result, ret>>
    /\ UNCHANGED <<seq_counter, link, reader_vars, outer_vars>>

\* showLeds: return self._wait_for_ack(seq)
ShowLedsReturn ==
    /\ pc = "ack_done"
    /\ call.name = "showLeds"
    /\ Return(Bool(ack_result))
    /\ UNCHANGED <<seq_counter, link, reader_vars, outer_vars>>

\* setLedColors after its wait, going on to showLeds whatever the wait
\* returned.
SetLedColorsAckedOrNot ==
    /\ pc = "ack_done"
    /\ call.name = "setLedColors"
    /\ call.show => Len(link) + 1 <= MaxSends
    /\ IF call.show
       THEN /\ seq_counter' = get_next_seq(seq_counter)
            /\ link' = Append(link, send_message(CMD_LED_SHOW, seq_counter, <<>>,
                                                 ADDR_CLIENT))
            /\ StartWait(seq_counter, [name |-> "showLeds", stage |-> "set_show",
                                       show |-> FALSE])
       ELSE Return(Bool(ack_result)) /\ UNCHANGED <<seq_counter, link>>
    /\ UNCHANGED <<reader_vars, outer_vars>>

\* setLedColors after its wait: return False on failure, else go on to
\* showLeds(wait_ack=True) if show is set (the call is then in the stage
\* "set_show"), else return True.
SetLedColorsAcked ==
    /\ pc = "ack_done"
    /\ call.name = "setLedColors"
    /\ (ack_result /\ call.show) => Len(link) + 1 <= MaxSends
    /\ IF ~ack_result
       THEN Return("False") /\ UNCHANGED <<seq_counter, link>>
       ELSE IF call.show
       THEN /\ seq_counter' = get_next_seq(seq_counter)
            /\ link' = Append(link, send_message(CMD_LED_SHOW, seq_counter, <<>>,
                                                 ADDR_CLIENT))
            /\ StartWait(seq_counter, [name |-> "showLeds", stage |-> "set_show",
                                       show |-> FALSE])
       ELSE Return("True") /\ UNCHANGED <<seq_counter, link>>
    /\ UNCHANGED <<reader_vars, outer_vars>>

MaxNow == 3         \* the largest reading of time.monotonic(), in ticks

\* time.monotonic() advances.
Advance ==
    /\ pc # "off"
    /\ now < MaxNow
    /\ now' = now + 1
    /\ UNCHANGED <<last_send_time, status, force, session_base, unscanned, reed, dev_vars,
                   cobs_vars, msg_vars, enc_vars>>

\* ApparatusDevice.clearResponses()
ClearResponses ==
    /\ pc = "idle"
    /\ responses' = <<>>
    /\ UNCHANGED <<seq_counter, link, buffer, created, rx_calls, rx_data, rx_pos, clock,
                   caller_vars, outer_vars>>

\* The steps of the caller thread inside _wait_for_ack and after it.
WaitStep ==
    \/ WaitTimeout
    \/ WaitSnapshot
    \/ WaitMatch
    \/ WaitSleep
    \/ ShowLedsReturn

Next ==
    \/ \E data \in WireChunks : DataReceived(data)
    \/ DataReceivedLoop
    \/ \E wait_ack \in BOOLEAN : ShowLeds(wait_ack)
    \/ WaitStep
    \/ Tick
    \/ ClearResponses

Spec == Init /\ [][Next]_vars

\* The same under the scheduling the threads and the clock have: time.time()
\* advances while the caller sleeps and polls, and the caller thread is
\* scheduled again and again.
FairSpec == Spec /\ WF_vars(Tick) /\ WF_vars(WaitStep)

(***************************************************************************)
(* SpecSeq: the LED commands of one device whose sequence counter stands at *)
(* 1 (a new device) or at 0xFFFFFFFF (after 2^32 - 2 sends); the device     *)
(* answers the command being waited on with an ACK or a NACK, or not at all.*)
(***************************************************************************)
SeqStarts == {U32(1), SEQ_MAX}

InitSeq ==
    /\ CobsIdle
    /\ MsgIdle
    /\ EncIdle
    /\ AppNew
    /\ seq_counter \in SeqStarts
    /\ link = <<>>
    /\ buffer = <<>>
    /\ responses = <<>>
    /\ created = 0
    /\ rx_calls = 0
    /\ rx_data = <<>>
    /\ rx_pos = 0
    /\ clock = 0
    /\ pc = "idle"
    /\ call = NoCall
    /\ expected_seq = U32(0)
    /\ snapshot = <<>>
    /\ waited = 0
    /\ wait_base = 0
    /\ matched = NoResponse
    /\ ack_result = FALSE
    /\ ret = "none"

NextSeq ==
    \/ \E data \in AnswerChunks : DataReceived(data)
    \/ \E wait_ack \in BOOLEAN : ShowLeds(wait_ack)
    \/ \E in \in LedInputs, show \in BOOLEAN, wait_ack \in BOOLEAN :
          SetLedColors(in, show, wait_ack)
    \/ SetLedColorsShow
    \/ WaitStep
    \/ SetLedColorsAcked
    \/ Tick
    \/ Advance

SpecSeq == InitSeq /\ [][NextSeq]_vars

(***************************************************************************)
(* SpecClock: the transport with the reader's clock running.  Responses are *)
(* stamped with the clock's reading; the caller may reset the clock and     *)
(* clear the list between its commands.                                     *)
(***************************************************************************)
MaxClock == 2       \* the largest reading of the reader's clock, in ticks

\* The reader's clock advances.
ClockTick ==
    /\ pc # "off"
    /\ clock < MaxClock
    /\ clock' = clock + 1
    /\ UNCHANGED <<seq_counter, link, buffer, responses, created, rx_calls, rx_data, rx_pos,
                   caller_vars, outer_vars>>

\* ApparatusDevice.resetClock(): self._protocol.reset_clock()
ResetClock ==
    /\ pc = "idle"
    /\ clock' = 0
    /\ UNCHANGED <<seq_counter, link, buffer, responses, created, rx_calls, rx_data, rx_pos,
                   caller_vars, outer_vars>>

\* An ACK or a run of data frames for a sequence number that was sent.
ClockChunks == UNION {{AckFrame(q)} \cup DataChunks[q] : q \in SentSeqs}

NextClock ==
    \/ \E data \in ClockChunks : DataReceived(data)
    \/ DataReceivedLoop
    \/ \E wait_ack \in BOOLEAN : ShowLeds(wait_ack)
    \/ WaitStep
    \/ Tick
    \/ ClockTick
    \/ ResetClock
    \/ ClearResponses

SpecClock == Init /\ [][NextClock]_vars

(***************************************************************************)
(* SpecRate: the LED calls of Apparatus (hardware/apparatus.py) with their  *)
(* rate_limited flag, while time.monotonic() advances.                      *)
(***************************************************************************)
RateLimitTicks == 2 \* ApparatusDevice._rate_limit_interval, in ticks

\* The test "time.monotonic() - self._device._last_send_time <
\* self._device._rate_limit_interval".
rate_limit_hit(t, last, interval) == t - last < interval

\* The call returns False without touching the device.
Skipped ==
    /\ Return("False")
    /\ UNCHANGED <<seq_counter, link, reader_vars, outer_vars>>

\* Apparatus.setHoleLights(holes, color, rate_limited), up to its return or
\* the first wait of setLedColors; holes is the list _parse_holes gave and
\* rgb the color as an rgb255 tuple.
SetHoleLights(holes, rgb, rate_limited) ==
    /\ pc = "idle"
    /\ IF Len(holes) = 0
       THEN Return("True") /\ UNCHANGED <<seq_counter, link, reader_vars, outer_vars>>
       ELSE IF rate_limited /\ rate_limit_hit(now, last_send_time, RateLimitTicks)
       THEN Skipped
       ELSE SetLedColors(LedInput(holes, [shared |-> TRUE, rgb |-> rgb]), TRUE, TRUE)

\* Apparatus.setColors(colors, rate_limited): holes are the keys of the
\* dict and color_list its values, in the dict's order.
SetColors(holes, color_list, rate_limited) ==
    /\ pc = "idle"
    /\ IF rate_limited /\ rate_limit_hit(now, last_send_time, RateLimitTicks)
       THEN Skipped
       ELSE IF Len(holes) = 0
       THEN Return("True") /\ UNCHANGED <<seq_counter, link, reader_vars, outer_vars>>
       ELSE SetLedColors(LedInput(holes, ColorList(color_list)), TRUE, TRUE)

\* Apparatus.turnOffAllLights(rate_limited): clearLeds(wait_ack=True), which
\* is setLedColors(list(range(21)), (0, 0, 0), show=True, wait_ack=True).
TurnOffAllLights(rate_limited) ==
    /\ pc = "idle"
    /\ IF rate_limited /\ rate_limit_hit(now, last_send_time, RateLimitTicks)
       THEN Skipped
       ELSE SetLedColors(LedInput([k \in 1..21 |-> k - 1],
                                  [shared |-> TRUE, rgb |-> <<0, 0, 0>>]), TRUE, TRUE)

\* The arguments of the LED calls of Apparatus.
HoleLists == {<<>>, <<3, 7>>}
DictColors == {<<>>, <<<<10, 20, 30>>, <<40, 50, 60>>>>}

\* One LED call of Apparatus, rate-limited or not.
LedCall(rate_limited) ==
    \/ \E holes \in HoleLists : SetHoleLights(holes, <<10, 20, 30>>, rate_limited)
    \/ \E list \in DictColors :
          SetColors(IF Len(list) = 0 THEN <<>> ELSE <<3, 7>>, list, rate_limited)
    \/ TurnOffAllLights(rate_limited)

\* The device ACKs the command being waited on, or stays silent.
RateChunks == IF expected_seq \in SentSeqs THEN {AckFrame(expected_seq)} ELSE {}

NextRate ==
    \/ Advance
    \/ \E rate_limited \in BOOLEAN : LedCall(rate_limited)
    \/ ShowLeds(FALSE)
    \/ \E data \in RateChunks : DataReceived(data)
    \/ WaitStep
    \/ SetLedColorsAcked
    \/ Tick

SpecRate == Init /\ [][NextRate]_vars

(***************************************************************************)
(* SpecEnc: the payload encoders on every combination of a few argument     *)
(* values.                                                                  *)
(***************************************************************************)
MaxHoles == 3       \* the longest hole list and color list

\* The hole list of n holes: 3, 7, 11, ...
HolesOf(n) == [k \in 1..n |-> ((4 * k) - 1) % 21]

EncColors == {<<10, 20, 30>>, <<40, 50, 60>>}

\* The arguments of encode_led_payload_auto: no hole to MaxHoles holes, with
\* one shared color or with a list of no color to MaxHoles colors.
LedEncInputs ==
    {[fn |-> "led", holes |-> HolesOf(n), colors |-> c] :
        n \in 0..MaxHoles,
        c \in {SharedColor(rgb[1], rgb[2], rgb[3]) : rgb \in EncColors}
              \cup {ColorList(list) :
                       list \in UNION {[1..m -> EncColors] : m \in 0..MaxHoles}}}

MaxRate == 8        \* the sampling rates 1..MaxRate Hz are tried, and 50 and 100 Hz

\* 'white', 'blue', 'both', 'White', 'BOTH', 'red' and ''.
DeviceStrings ==
    {<<119, 104, 105, 116, 101>>, <<98, 108, 117, 101>>, <<98, 111, 116, 104>>,
     <<87, 104, 105, 116, 101>>, <<66, 79, 84, 72>>, <<114, 101, 100>>, <<>>}

\* The arguments of encode_force_start_payload.
ForceEncInputs ==
    {[fn |-> "force", rate |-> rate, device |-> device] :
        rate \in (1..MaxRate) \cup {50, 100}, device \in DeviceStrings}

EncInputs == LedEncInputs \cup ForceEncInputs

InitEnc ==
    /\ enc_in \in EncInputs
    /\ enc_out = <<>>
    /\ enc_pc = "input"
    /\ CobsIdle
    /\ MsgIdle
    /\ DevIdle
    /\ AppNew

EncodeLed ==
    /\ enc_pc = "input"
    /\ enc_in.fn = "led"
    /\ enc_out' = encode_led_payload_auto(enc_in.holes, enc_in.colors)
    /\ enc_pc' = "encoded"
    /\ UNCHANGED <<enc_in, cobs_vars, msg_vars, dev_vars, app_vars>>

EncodeForce ==
    /\ enc_pc = "input"
    /\ enc_in.fn = "force"
    /\ enc_out' = encode_force_start_payload(enc_in.rate, enc_in.device)
    /\ enc_pc' = "encoded"
    /\ UNCHANGED <<enc_in, cobs_vars, msg_vars, dev_vars, app_vars>>

NextEnc == EncodeLed \/ EncodeForce

SpecEnc == InitEnc /\ [][NextEnc]_vars

(***************************************************************************)
(* The force engine (Apparatus.startForceMeasurement, updateForceMeasurement *)
(* and stopForceMeasurement) on top of the device and its reader.           *)
(***************************************************************************)
\* struct.unpack('<h'): two bytes as a signed 16-bit value.
unpack_i16(lo, hi) ==
    LET v == lo + (256 * hi)
    IN IF v >= 32768 THEN v - 65536 ELSE v

\* ApparatusResponse.__init__ reading the sample from the first seven bytes of
\* any payload that has them.
response_force_any_length(response, device_id) ==
    IF /\ response.msg_type = DATA_FORCE
       /\ Len(response.payload) >= 7
       /\ response.payload[7] = device_id
    THEN <<unpack_i16(response.payload[5], response.payload[6])>>
    ELSE None

\* ApparatusResponse.__init__: the force field filled for device_id, as a
\* one-element sequence, or None.
response_force(response, device_id) ==
    IF /\ response.msg_type = DATA_FORCE
       /\ Len(response.payload) = 7
       /\ response.payload[7] = device_id
    THEN <<unpack_i16(response.payload[5], response.payload[6])>>
    ELSE None

whiteForce(response) == response_force(response, 0)
blueForce(response) == response_force(response, 1)

\* startForceMeasurement, "Clear previous data", leaving the collected
\* responses and their times in place.
start_clear_data_keep_responses(f) ==
    [f EXCEPT !.whiteForceValues = <<>>, !.blueForceValues = <<>>,
              !.whiteForceTimestamps = <<>>, !.blueForceTimestamps = <<>>,
              !.whiteForce = 0, !.blueForce = 0,
              !.maxWhiteForce = 0, !.maxBlueForce = 0]

\* startForceMeasurement: "Clear previous data".
start_clear_data(f) ==
    [f EXCEPT !.times = <<>>, !.responses = <<>>,
              !.whiteForceValues = <<>>, !.blueForceValues = <<>>,
              !.whiteForceTimestamps = <<>>, !.blueForceTimestamps = <<>>,
              !.whiteForce = 0, !.blueForce = 0,
              !.maxWhiteForce = 0, !.maxBlueForce = 0]

\* startForceMeasurement, startReedMeasurement: "if success: ... self.status =
\* STARTED".
start_status(st, success) == IF success THEN "STARTED" ELSE st

\* stopForceMeasurement, stopReedMeasurement: "if success: ... self.status =
\* FINISHED".
stop_status(st, success) == IF success THEN "FINISHED" ELSE st

\* startForceMeasurement marking the engine Measuring whatever the outcome.
start_result_any(f, success) == [f EXCEPT !.measuring = TRUE]

\* startForceMeasurement: "if success: self._force_measuring = True".
start_result(f, success) == IF success THEN [f EXCEPT !.measuring = TRUE] ELSE f

\* stopForceMeasurement: "if success: self._force_measuring = False".
stop_result(f, success) == IF success THEN [f EXCEPT !.measuring = FALSE] ELSE f

\* lst[n:]
slice_from(lst, n) == IF n >= Len(lst) THEN <<>> ELSE SubSeq(lst, n + 1, Len(lst))

\* _collectForceResponses: the body of the loop for one response.
collect_force_response(f, response) ==
    IF response.msg_type # DATA_FORCE THEN f
    ELSE LET w == whiteForce(response)
             b == blueForce(response)
             f1 == [f EXCEPT !.times = Append(@, response.t),
                             !.responses = Append(@, response)]
             f2 == IF w = None THEN f1
                   ELSE [f1 EXCEPT !.whiteForce = w[1],
                                   !.whiteForceValues = Append(@, w[1]),
                                   !.whiteForceTimestamps = Append(@, response.t),
                                   !.maxWhiteForce = IF w[1] > @ THEN w[1] ELSE @]
         IN IF b = None THEN f2
            ELSE [f2 EXCEPT !.blueForce = b[1],
                            !.blueForceValues = Append(@, b[1]),
                            !.blueForceTimestamps = Append(@, response.t),
                            !.maxBlueForce = IF b[1] > @ THEN b[1] ELSE @]

RECURSIVE collect_force_loop(_, _, _)
collect_force_loop(f, new_responses, k) ==
    IF k > Len(new_responses) THEN f
    ELSE collect_force_loop(collect_force_response(f, new_responses[k]),
                            new_responses, k + 1)

\* _collectForceResponses leaving the response counter where it was.
response_count_after_kept(f, all_responses) == f.start_response_count

\* _collectForceResponses: "Update the response counter".
response_count_after(f, all_responses) == Len(all_responses)

\* _collectForceResponses, given the copy getResponses() returned.
collectForceResponses(f, all_responses) ==
    IF ~f.measuring THEN f
    ELSE LET new_responses == slice_from(all_responses, f.start_response_count)
         IN [collect_force_loop(f, new_responses, 1)
                EXCEPT !.start_response_count = response_count_after(f, all_responses)]

ForceCall(name, rate, device) ==
    [name |-> name, stage |-> "force", show |-> FALSE, rate |-> rate, device |-> device]

\* Apparatus.startForceMeasurement(rate, device) up to
\* self._device.clearResponses().
StartForceMeasurement(rate, device) ==
    /\ pc = "idle"
    /\ encode_force_start_payload(rate, device) # ValueError => Len(link) + 1 <= MaxSends
    /\ force' = start_clear_data(force)
    /\ responses' = <<>>
    /\ session_base' = created
    /\ unscanned' = {}
    /\ pc' = "force_count"
    /\ call' = ForceCall("startForceMeasurement", rate, device)
    /\ ret' = "none"
    /\ UNCHANGED <<expected_seq, snapshot, waited, wait_base, matched, ack_result>>
    /\ UNCHANGED <<seq_counter, link, buffer, created, rx_calls, rx_data, rx_pos, clock>>
    /\ UNCHANGED <<cobs_vars, msg_vars, enc_vars, now, last_send_time, status, reed>>

\* self._force_start_response_count = self._device.getNumberOfResponses()
StartForceCount ==
    /\ pc = "force_count"
    /\ force' = [force EXCEPT !.start_response_count = Len(responses)]
    /\ pc' = "force_send"
    /\ UNCHANGED <<call, expected_seq, snapshot, waited, wait_base, matched, ack_result, ret>>
    /\ UNCHANGED <<seq_counter, link, reader_vars>>
    /\ UNCHANGED <<cobs_vars, msg_vars, enc_vars, now, last_send_time, status, reed,
                   session_base, unscanned>>

\* ApparatusDevice.startForceMeasurement(rate_hz, device, wait_ack=True) up
\* to its wait: the payload is encoded, then the command is sent.
StartForceSend ==
    /\ pc = "force_send"
    /\ LET payload == encode_force_start_payload(call.rate, call.device)
       IN IF payload = ValueError
          THEN Return("ValueError") /\ UNCHANGED <<seq_counter, link>>
          ELSE /\ seq_counter' = get_next_seq(seq_counter)
               /\ link' = Append(link, send_message(CMD_FORCE_START, seq_counter, payload,
                                                    ADDR_SERVER))
               /\ StartWait(seq_counter, call)
    /\ UNCHANGED <<reader_vars, outer_vars>>

\* startForceMeasurement after the wait: the engine is Measuring if the
\* command succeeded; return success.
StartForceReturn ==
    /\ pc = "ack_done"
    /\ call.name = "startForceMeasurement"
    /\ force' = start_result(force, ack_result)
    /\ status' = start_status(status, ack_result)
    /\ Return(Bool(ack_result))
    /\ UNCHANGED <<seq_counter, link, reader_vars>>
    /\ UNCHANGED <<cobs_vars, msg_vars, enc_vars, now, last_send_time, reed, session_base,
                   unscanned>>

\* Apparatus.updateForceMeasurement()
UpdateForceMeasurement ==
    /\ pc = "idle"
    /\ force' = collectForceResponses(force, responses)
    /\ unscanned' = IF force.measuring THEN {} ELSE unscanned
    /\ Return("None")
    /\ UNCHANGED <<seq_counter, link, reader_vars>>
    /\ UNCHANGED <<cobs_vars, msg_vars, enc_vars, now, last_send_time, status, reed,
                   session_base>>

\* Apparatus.stopForceMeasurement() up to its return or its wait: an engine
\* that is not Measuring returns True; otherwise the remaining responses are
\* collected and the force-stop command is sent.
StopForceMeasurement ==
    /\ pc = "idle"
    /\ force.measuring => Len(link) + 1 <= MaxSends
    /\ IF ~force.measuring
       THEN /\ Return("True")
            /\ UNCHANGED <<seq_counter, link, force, unscanned>>
       ELSE /\ force' = collectForceResponses(force, responses)
            /\ unscanned' = {}
            /\ seq_counter' = get_next_seq(seq_counter)
            /\ link' = Append(link, send_message(CMD_FORCE_STOP, seq_counter, <<>>,
                                                 ADDR_SERVER))
            /\ StartWait(seq_counter, ForceCall("stopForceMeasurement", 0, <<>>))
    /\ UNCHANGED reader_vars
    /\ UNCHANGED <<cobs_vars, msg_vars, enc_vars, now, last_send_time, status, reed,
                   session_base>>

\* stopForceMeasurement after the wait: the engine is Idle if the command
\* succeeded; return success.
StopForceReturn ==
    /\ pc = "ack_done"
    /\ call.name = "stopForceMeasurement"
    /\ force' = stop_result(force, ack_result)
    /\ status' = stop_status(status, ack_result)
    /\ Return(Bool(ack_result))
    /\ UNCHANGED <<seq_counter, link, reader_vars>>
    /\ UNCHANGED <<cobs_vars, msg_vars, enc_vars, now, last_send_time, reed, session_base,
                   unscanned>>

\* A force sample of the blue dynamometer: time_us = 2, value = 9, device = 1.
BlueFrame(seq) == cobs_encode(device_message(DATA_FORCE, seq, <<2, 0, 0, 0, 9, 0, 1>>))

\* What the serial port may hand to one data_received call while the force
\* engine is in use: the answer to a command that was sent, the ACK with a
\* white sample right behind it, or a white and a blue sample.
ForceChunks ==
    UNION {{AckFrame(q), NackFrame(q, ERR_BAD_PAYLOAD),
            AckFrame(q) \o DataFrame(U32(0))} : q \in SentSeqs}
    \cup {DataFrame(U32(0)) \o BlueFrame(U32(0))}

\* The arguments of startForceMeasurement: 50 Hz on 'Both', 100 Hz on 'red'.
ForceStarts ==
    {<<50, <<66, 111, 116, 104>>>>,
     <<100, <<114, 101, 100>>>>}

\* SpecForce: one caller thread using the force engine and the LEDs of one
\* device, and the reader thread.
NextForce ==
    \/ \E data \in ForceChunks : DataReceived(data)
    \/ DataReceivedLoop
    \/ \E in \in ForceStarts : StartForceMeasurement(in[1], in[2])
    \/ StartForceCount
    \/ StartForceSend
    \/ StartForceReturn
    \/ UpdateForceMeasurement
    \/ StopForceMeasurement
    \/ StopForceReturn
    \/ ShowLeds(TRUE)
    \/ ShowLedsReturn
    \/ WaitTimeout
    \/ WaitSnapshot
    \/ WaitMatch
    \/ WaitSleep
    \/ Tick

SpecForce == Init /\ [][NextForce]_vars

\* SpecShared: the same with clearResponses() called between the engine's
\* calls.
NextShared ==
    \/ NextForce
    \/ ClearResponses

SpecShared == Init /\ [][NextShared]_vars

(***************************************************************************)
(* The reed engine of Apparatus (hardware/apparatus.py).  Timestamps and    *)
(* durations are in ticks.  A hole specification is a record with a         *)
(* sequence v: kind "str" with the string's character codes, kind "int"     *)
(* with the number alone, kind "list" with the elements, or kind "callable". *)
(***************************************************************************)
TypeError == <<-3>>
CMD_REED_START == 20
CMD_REED_STOP == 21

\* list(range(lo, hi))
range(lo, hi) == [k \in 1..(hi - lo) |-> lo + k - 1]

\* _parse_holes with a keyword branch that falls through to "no holes"
\* instead of raising.
parse_holes_lenient(holes_spec) ==
    IF holes_spec.kind = "callable" THEN TypeError
    ELSE IF holes_spec.kind = "str"
    THEN IF holes_spec.v = <<97, 108, 108>> THEN range(0, 21)
         ELSE IF holes_spec.v = <<105, 110, 110, 101, 114>> THEN range(0, 8)
         ELSE IF holes_spec.v = <<111, 117, 116, 101, 114>> THEN range(8, 21)
         ELSE <<>>
    ELSE IF holes_spec.kind = "int" THEN <<holes_spec.v[1]>>
    ELSE holes_spec.v

\* _parse_holes(holes_spec): the list of hole indices, or the error raised.
\* 'all' = 97 108 108, 'none' = 110 111 110 101, 'inner' = 105 110 110 101
\* 114, 'outer' = 111 117 116 101 114.
parse_holes(holes_spec) ==
    IF holes_spec.kind = "callable" THEN TypeError
    ELSE IF holes_spec.kind = "str"
    THEN IF holes_spec.v = <<97, 108, 108>> THEN range(0, 21)
         ELSE IF holes_spec.v = <<110, 111, 110, 101>> THEN <<>>
         ELSE IF holes_spec.v = <<105, 110, 110, 101, 114>> THEN range(0, 8)
         ELSE IF holes_spec.v = <<111, 117, 116, 101, 114>> THEN range(8, 21)
         ELSE ValueError
    ELSE IF holes_spec.kind = "int" THEN <<holes_spec.v[1]>>
    ELSE holes_spec.v

\* {hole: v for hole in holes}
dict_of(holes, v) == [hole \in {holes[k] : k \in 1..Len(holes)} |-> v]

\* d.get(key, default)
dict_get(d, key, default) == IF key \in DOMAIN d THEN d[key] ELSE default

\* startReedMeasurement: the monitored holes are stored, the data of the
\* previous session is cleared and the tracking of every monitored hole is
\* initialized.
start_reed_reset(r, holes) ==
    [r EXCEPT !.monitored_holes = holes,
              !.reedTimes = <<>>,
              !.reedHoles = <<>>,
              !.reedActions = <<>>,
              !.reedSummary = <<>>,
              !.last_states = dict_of(holes, 0),
              !.insertion_counts = dict_of(holes, 0),
              !.removal_counts = dict_of(holes, 0),
              !.active_durations = dict_of(holes, 0),
              !.last_insert_time = dict_of(holes, None),
              !.last_timestamp = None]

\* startReedMeasurement: "if success: self._reed_measuring = True".
start_reed_result(r, success) == IF success THEN [r EXCEPT !.measuring = TRUE] ELSE r

\* stopReedMeasurement: "if success: self._reed_measuring = False".
stop_reed_result(r, success) == IF success THEN [r EXCEPT !.measuring = FALSE] ELSE r

\* "hasattr(response, 'reed_holes') and response.reed_holes is not None":
\* the snapshot of a response that has the attribute, a dict from hole index
\* to state, else None.  ApparatusResponse.__init__ sets no attribute
\* reed_holes, so no response the reader creates has one.
reed_holes(response) ==
    IF "reed_holes" \in DOMAIN response THEN response.reed_holes ELSE None

\* _collectReedResponses: the body of the loop over the monitored holes for
\* one hole.
collect_reed_hole(r, hole, new_state, timestamp) ==
    IF new_state = r.last_states[hole] THEN r
    ELSE LET r1 == IF new_state = 1
                   THEN [r EXCEPT !.insertion_counts[hole] = @ + 1,
                                  !.last_insert_time[hole] = <<timestamp>>]
                   ELSE IF r.last_insert_time[hole] # None
                   THEN [r EXCEPT !.removal_counts[hole] = @ + 1,
                                  !.active_durations[hole] =
                                      @ + (timestamp - r.last_insert_time[hole][1]),
                                  !.last_insert_time[hole] = None]
                   ELSE [r EXCEPT !.removal_counts[hole] = @ + 1]
         IN [r1 EXCEPT !.reedTimes = Append(@, timestamp),
                       !.reedHoles = Append(@, hole),
                       !.reedActions = Append(@, IF new_state = 1 THEN 1 ELSE 0),
                       !.last_states[hole] = new_state]

\* The loop over self._reed_monitored_holes from its k-th element on.
RECURSIVE collect_reed_holes(_, _, _, _)
collect_reed_holes(r, snap, timestamp, k) ==
    IF k > Len(r.monitored_holes) THEN r
    ELSE LET hole == r.monitored_holes[k]
         IN collect_reed_holes(collect_reed_hole(r, hole, dict_get(snap, hole, 0), timestamp),
                               snap, timestamp, k + 1)

\* _collectReedResponses: the body of the loop for one response.
collect_reed_response(r, response) ==
    IF response.msg_type # DATA_REED THEN r
    ELSE LET snap == reed_holes(response)
         IN IF snap = None THEN r
            ELSE collect_reed_holes(r, snap[1], response.t, 1)

\* The loop over new_responses from its k-th element on.
RECURSIVE collect_reed_loop(_, _, _)
collect_reed_loop(r, new_responses, k) ==
    IF k > Len(new_responses) THEN r
    ELSE collect_reed_loop(collect_reed_response(r, new_responses[k]), new_responses, k + 1)

\* _collectReedResponses: "Update counter", the cursor after the scan.
reed_count_after(r, all_responses) == Len(all_responses)

\* _collectReedResponses() with the list the device returns.
collectReedResponses(r, all_responses) ==
    IF ~r.measuring THEN r
    ELSE LET new_responses == slice_from(all_responses, r.start_response_count)
             r1 == collect_reed_loop(r, new_responses, 1)
         IN [r1 EXCEPT !.start_response_count = reed_count_after(r, all_responses)]

\* stopReedMeasurement: the loop that adds, for every monitored hole that is
\* still inserted, the time from its insertion to final_timestamp.
RECURSIVE finalize_durations(_, _, _)
finalize_durations(r, final_timestamp, k) ==
    IF k > Len(r.monitored_holes) THEN r
    ELSE LET hole == r.monitored_holes[k]
             r1 == IF r.last_states[hole] = 1 /\ r.last_insert_time[hole] # None
                   THEN [r EXCEPT !.active_durations[hole] =
                                      @ + (final_timestamp - r.last_insert_time[hole][1])]
                   ELSE r
         IN finalize_durations(r1, final_timestamp, k + 1)

\* sorted(lst)
RECURSIVE sorted(_)
sorted(lst) ==
    IF lst = <<>> THEN <<>>
    ELSE LET x == lst[Len(lst)]
             rest == sorted(SubSeq(lst, 1, Len(lst) - 1))
             k == Cardinality({j \in 1..Len(rest) : rest[j] <= x})
         IN SubSeq(rest, 1, k) \o <<x>> \o SubSeq(rest, k + 1, Len(rest))

\* stopReedMeasurement: the summary, one entry for each element of
\* sorted(self._reed_monitored_holes) with an insertion or a removal.
build_summary(r) ==
    LET holes == sorted(r.monitored_holes)
        active == SelectSeq(holes, LAMBDA hole : r.insertion_counts[hole] > 0
                                                 \/ r.removal_counts[hole] > 0)
    IN [k \in 1..Len(active) |->
           [hole |-> active[k],
            insertions |-> r.insertion_counts[active[k]],
            removals |-> r.removal_counts[active[k]],
            duration |-> r.active_durations[active[k]]]]

\* stopReedMeasurement up to the device call, at reading final_timestamp of
\* core.getTime().
stop_reed_finalize(r, all_responses, final_timestamp) ==
    LET r1 == collectReedResponses(r, all_responses)
        r2 == finalize_durations(r1, final_timestamp, 1)
    IN [r2 EXCEPT !.reedSummary = build_summary(r2)]

(***************************************************************************)
(* SpecReed: the reed calls of Apparatus while the reader appends responses *)
(* and time passes.  The event timestamps are readings of the reader's      *)
(* clock (a core.Clock created with the device); core.getTime() reads the   *)
(* process-wide clock, which runs at the same rate and was started MaxEpoch *)
(* ticks before the device was created: it is modelled by now.              *)
(***************************************************************************)
MaxEpoch == 1       \* ticks between the start of the process-wide clock and the device

ReedCall(name, rate, holes) ==
    [name |-> name, stage |-> "reed", show |-> FALSE, rate |-> rate, holes |-> holes]

\* Apparatus.startReedMeasurement(rate, holes) up to
\* self._device.clearResponses(): a hole specification that _parse_holes
\* rejects raises before anything is assigned.
StartReedMeasurement(rate, holes) ==
    /\ pc = "idle"
    /\ LET parsed == parse_holes(holes)
       IN IF parsed \in {ValueError, TypeError}
          THEN /\ Return(IF parsed = ValueError THEN "ValueError" ELSE "TypeError")
               /\ UNCHANGED <<reed, responses>>
          ELSE /\ reed' = start_reed_reset(reed, parsed)
               /\ responses' = <<>>
               /\ pc' = "reed_count"
               /\ call' = ReedCall("startReedMeasurement", rate, holes)
               /\ ret' = "none"
               /\ UNCHANGED <<expected_seq, snapshot, waited, wait_base, matched, ack_result>>
    /\ UNCHANGED <<seq_counter, link, buffer, created, rx_calls, rx_data, rx_pos, clock>>
    /\ UNCHANGED <<cobs_vars, msg_vars, enc_vars, now, last_send_time, status, force,
                   session_base, unscanned>>

\* self._reed_start_response_count = self._device.getNumberOfResponses()
StartReedCount ==
    /\ pc = "reed_count"
    /\ reed' = [reed EXCEPT !.start_response_count = Len(responses)]
    /\ pc' = "reed_send"
    /\ UNCHANGED <<call, expected_seq, snapshot, waited, wait_base, matched, ack_result, ret>>
    /\ UNCHANGED <<seq_counter, link, reader_vars>>
    /\ UNCHANGED <<cobs_vars, msg_vars, enc_vars, now, last_send_time, status, force,
                   session_base, unscanned>>

\* "success = self._device.startReedMeasurement(rate, wait_ack=True)":
\* ApparatusDevice has no attribute startReedMeasurement, so the lookup
\* raises AttributeError and the call ends here.  Nothing is sent, and the
\* engine stays as the reset left it.
StartReedSend ==
    /\ pc = "reed_send"
    /\ Return("AttributeError")
    /\ UNCHANGED <<seq_counter, link, reader_vars, outer_vars>>

\* startReedMeasurement from "if success:" on: the engine is Measuring if
\* the command succeeded; return success.  The statement before it always
\* raises, so no run gets here and no specification has this step.
StartReedReturn ==
    /\ pc = "ack_done"
    /\ call.name = "startReedMeasurement"
    /\ reed' = start_reed_result(reed, ack_result)
    /\ status' = start_status(status, ack_result)
    /\ Return(Bool(ack_result))
    /\ UNCHANGED <<seq_counter, link, reader_vars>>
    /\ UNCHANGED <<cobs_vars, msg_vars, enc_vars, now, last_send_time, force, session_base,
                   unscanned>>

\* Apparatus.updateReedMeasurement()
UpdateReedMeasurement ==
    /\ pc = "idle"
    /\ reed' = collectReedResponses(reed, responses)
    /\ Return("None")
    /\ UNCHANGED <<seq_counter, link, reader_vars>>
    /\ UNCHANGED <<cobs_vars, msg_vars, enc_vars, now, last_send_time, status, force,
                   session_base, unscanned>>

\* stopReedMeasurement without the test of _reed_measuring: it finalizes and
\* goes on to the device call in every state.
StopReedMeasurementAlways ==
    /\ pc = "idle"
    /\ reed' = stop_reed_finalize(reed, responses, now)
    /\ pc' = "reed_stop_send"
    /\ call' = ReedCall("stopReedMeasurement", 0, <<>>)
    /\ ret' = "none"
    /\ UNCHANGED <<expected_seq, snapshot, waited, wait_base, matched, ack_result>>
    /\ UNCHANGED <<seq_counter, link, reader_vars>>
    /\ UNCHANGED <<cobs_vars, msg_vars, enc_vars, now, last_send_time, status, force,
                   session_base, unscanned>>

\* Apparatus.stopReedMeasurement() up to its return or its device call: an
\* engine that is not Measuring returns True; otherwise the remaining
\* responses are collected, the durations are finalized at core.getTime()
\* and the summary is built.
StopReedMeasurement ==
    /\ pc = "idle"
    /\ IF ~reed.measuring
       THEN /\ Return("True")
            /\ UNCHANGED reed
       ELSE /\ reed' = stop_reed_finalize(reed, responses, now)
            /\ pc' = "reed_stop_send"
            /\ call' = ReedCall("stopReedMeasurement", 0, <<>>)
            /\ ret' = "none"
            /\ UNCHANGED <<expected_seq, snapshot, waited, wait_base, matched, ack_result>>
    /\ UNCHANGED <<seq_counter, link, reader_vars>>
    /\ UNCHANGED <<cobs_vars, msg_vars, enc_vars, now, last_send_time, status, force,
                   session_base, unscanned>>

\* "success = self._device.stopReedMeasurement(wait_ack=True)":
\* ApparatusDevice has no attribute stopReedMeasurement, so the lookup raises
\* AttributeError and the call ends here.  Nothing is sent, and the engine
\* stays Measuring.  Only a Measuring engine gets here, and none is.
StopReedSend ==
    /\ pc = "reed_stop_send"
    /\ Return("AttributeError")
    /\ UNCHANGED <<seq_counter, link, reader_vars, outer_vars>>

\* stopReedMeasurement from "if success:" on: the engine is Idle if the
\* command succeeded; return success.  The statement before it always
\* raises, so no run gets here and no specification has this step.
StopReedReturn ==
    /\ pc = "ack_done"
    /\ call.name = "stopReedMeasurement"
    /\ reed' = stop_reed_result(reed, ack_result)
    /\ status' = stop_status(status, ack_result)
    /\ Return(Bool(ack_result))
    /\ UNCHANGED <<seq_counter, link, reader_vars>>
    /\ UNCHANGED <<cobs_vars, msg_vars, enc_vars, now, last_send_time, force, session_base,
                   unscanned>>

\* Time passes: the reader's clock, the process-wide clock and, inside
\* _wait_for_ack, the time waited advance together.
TimePasses ==
    /\ pc # "off"
    /\ IF pc \in {"wait_head", "wait_scan"}
       THEN waited < TimeoutTicks /\ waited' = waited + 1
       ELSE clock < MaxClock /\ waited' = waited
    /\ clock' = clock + 1
    /\ now' = now + 1
    /\ UNCHANGED <<pc, call, expected_seq, snapshot, wait_base, matched, ack_result, ret>>
    /\ UNCHANGED <<seq_counter, link, buffer, responses, created, rx_calls, rx_data, rx_pos>>
    /\ UNCHANGED <<cobs_vars, msg_vars, enc_vars, last_send_time, status, force, session_base,
                   unscanned, reed>>

\* A reed-data frame with the snapshot bitmap bits.
ReedFrame(bits) == cobs_encode(device_message(DATA_REED, U32(0), bits))

\* What the serial port may hand to one data_received call: no command is
\* ever written to the link, so what arrives is unsolicited, a snapshot with
\* hole 4 inserted, alone or with a snapshot with no hole inserted behind it.
ReedChunks ==
    {ReedFrame(<<16, 0, 0>>), ReedFrame(<<16, 0, 0>>) \o ReedFrame(<<0, 0, 0>>)}

\* The arguments of startReedMeasurement: 100 Hz on the hole list [9, 4, 4],
\* which is not in ascending order and names hole 4 twice.
ReedStarts == {<<100, [kind |-> "list", v |-> <<9, 4, 4>>]>>}

\* The device has been created at reading now of the process-wide clock.
InitReed ==
    /\ CobsIdle
    /\ MsgIdle
    /\ EncIdle
    /\ now = MaxEpoch
    /\ last_send_time = now
    /\ force = ForceNew
    /\ session_base = 0
    /\ unscanned = {}
    /\ reed = ReedNew
    /\ status = "NOT_STARTED"
    /\ seq_counter = U32(1)
    /\ link = <<>>
    /\ buffer = <<>>
    /\ responses = <<>>
    /\ created = 0
    /\ rx_calls = 0
    /\ rx_data = <<>>
    /\ rx_pos = 0
    /\ clock = 0
    /\ pc = "idle"
    /\ call = NoCall
    /\ expected_seq = U32(0)
    /\ snapshot = <<>>
    /\ waited = 0
    /\ wait_base = 0
    /\ matched = NoResponse
    /\ ack_result = FALSE
    /\ ret = "none"

NextReed ==
    \/ \E data \in ReedChunks : DataReceived(data)
    \/ DataReceivedLoop
    \/ \E in \in ReedStarts : StartReedMeasurement(in[1], in[2])
    \/ StartReedCount
    \/ StartReedSend
    \/ UpdateReedMeasurement
    \/ StopReedMeasurement
    \/ TimePasses

SpecReed == InitReed /\ [][NextReed]_vars

(***************************************************************************)
(* SpecHoles: startReedMeasurement with every kind of hole specification,   *)
(* while the reader appends responses.                                      *)
(***************************************************************************)
\* 'all', 'inner', 'outer', 'none', 'All', 'bogus' and ''.
HoleKeywords ==
    {<<97, 108, 108>>, <<105, 110, 110, 101, 114>>, <<111, 117, 116, 101, 114>>,
     <<110, 111, 110, 101>>, <<65, 108, 108>>, <<98, 111, 103, 117, 115>>, <<>>}

\* The hole specifications given to startReedMeasurement: the strings above,
\* the integer 5, the lists [9, 4] and [], and a function.
HoleSpecs ==
    {[kind |-> "str", v |-> str] : str \in HoleKeywords}
    \cup {[kind |-> "int", v |-> <<5>>],
          [kind |-> "list", v |-> <<9, 4>>],
          [kind |-> "list", v |-> <<>>],
          [kind |-> "callable", v |-> <<>>]}

\* What the serial port may hand to one data_received call: an unsolicited
\* snapshot with hole 4 inserted.
HoleChunks == {ReedFrame(<<16, 0, 0>>)}

NextHoles ==
    \/ \E data \in HoleChunks : DataReceived(data)
    \/ \E holes \in HoleSpecs : StartReedMeasurement(100, holes)
    \/ StartReedCount
    \/ StartReedSend

SpecHoles == Init /\ [][NextHoles]_vars

(***************************************************************************)
(* SpecScan: one scan of the shared list by an engine right after its start *)
(* call, and a second scan right after it, on lists of up to MaxSamples     *)
(* responses.  The force engine was started by startForceMeasurement(50,    *)
(* 'Both') on a new apparatus: the responses of the list arrived between    *)
(* the clear of the start and its ACK, which was created last and removed   *)
(* by the wait.  The reed engine was reset by a startReedMeasurement on a   *)
(* new apparatus, which raised at its device call: the responses arrived    *)
(* after it.                                                                *)
(***************************************************************************)
MaxSamples == 3     \* responses in the list a scan is given

\* struct.pack('<h'): a signed 16-bit value as two bytes.
pack_i16(v) ==
    LET u == IF v < 0 THEN v + 65536 ELSE v
    IN <<u % 256, u \div 256>>

\* The response the reader creates as its uid-th, at clock reading t, for a
\* message of the device.
DeviceResponse(uid, t, msg_type, payload) ==
    [uid |-> uid,
     t |-> t,
     value |-> device_message(msg_type, U32(0), payload),
     msg_type |-> msg_type,
     seq |-> U32(0),
     payload |-> payload]

\* What a force session may find in the list: samples of -3, 5 and 9 N of
\* either dynamometer, and an ACK.
ForceItems ==
    {<<DATA_FORCE, <<1, 0, 0, 0>> \o pack_i16(v) \o <<d>>>> : v \in {-3, 5, 9}, d \in {0, 1}}
    \cup {<<MSG_ACK, <<>>>>}

\* The lists of up to MaxSamples responses made of items; the k-th has
\* identity k and was created at clock reading k.
ResponseLists(items) ==
    UNION {{[k \in 1..n |-> DeviceResponse(k, k, list[k][1], list[k][2])] :
               list \in [1..n -> items]} : n \in 0..MaxSamples}

\* startForceMeasurement has just succeeded: no data, cursor 0, Measuring.
ForceStarted == [ForceNew EXCEPT !.measuring = TRUE]

\* The force-start command of startForceMeasurement(50, 'Both').
ForceStartCommand ==
    send_message(CMD_FORCE_START, U32(1),
                 encode_force_start_payload(50, <<66, 111, 116, 104>>), ADDR_SERVER)

InitScanForce ==
    /\ pc = "scan_force"
    /\ responses \in ResponseLists(ForceItems)
    /\ force = ForceStarted
    /\ reed = ReedNew
    /\ status = "STARTED"
    /\ seq_counter = U32(2)
    /\ link = <<ForceStartCommand>>
    /\ created = Len(responses) + 1
    /\ ret = "True"

\* updateForceMeasurement() on the list.
ScanForce ==
    /\ pc = "scan_force"
    /\ force' = collectForceResponses(force, responses)
    /\ pc' = "scanned_force"
    /\ UNCHANGED <<call, expected_seq, snapshot, waited, wait_base, matched, ack_result, ret>>
    /\ UNCHANGED <<seq_counter, link, reader_vars>>
    /\ UNCHANGED <<cobs_vars, msg_vars, enc_vars, now, last_send_time, status, reed,
                   session_base, unscanned>>

\* updateForceMeasurement() again, nothing having been appended.
RescanForce ==
    /\ pc = "scanned_force"
    /\ force' = collectForceResponses(force, responses)
    /\ pc' = "rescanned_force"
    /\ UNCHANGED <<call, expected_seq, snapshot, waited, wait_base, matched, ack_result, ret>>
    /\ UNCHANGED <<seq_counter, link, reader_vars>>
    /\ UNCHANGED <<cobs_vars, msg_vars, enc_vars, now, last_send_time, status, reed,
                   session_base, unscanned>>

\* What the reed engine may find in the list: snapshots with holes 4 and 9
\* inserted or not, one with holes 2 and 4 inserted, and an ACK.
ReedItems ==
    {<<DATA_REED, <<b0, b1, 0>>>> : b0 \in {0, 16}, b1 \in {0, 2}}
    \cup {<<DATA_REED, <<20, 0, 0>>>>, <<MSG_ACK, <<>>>>}

\* The hole lists of the sessions that are scanned.
ScanHoles == {<<9, 4>>, <<4, 4>>, <<4>>}

\* startReedMeasurement(rate, holes) has just raised at its device call:
\* nothing recorded, cursor 0, not Measuring.
ReedStartRaised(holes) == start_reed_reset(ReedNew, holes)

InitScanReed ==
    /\ pc = "scan_reed"
    /\ responses \in ResponseLists(ReedItems)
    /\ force = ForceNew
    /\ \E holes \in ScanHoles : reed = ReedStartRaised(holes)
    /\ status = "NOT_STARTED"
    /\ seq_counter = U32(1)
    /\ link = <<>>
    /\ created = Len(responses)
    /\ ret = "AttributeError"

\* updateReedMeasurement() on the list.
ScanReed ==
    /\ pc = "scan_reed"
    /\ reed' = collectReedResponses(reed, responses)
    /\ pc' = "scanned_reed"
    /\ UNCHANGED <<call, expected_seq, snapshot, waited, wait_base, matched, ack_result, ret>>
    /\ UNCHANGED <<seq_counter, link, reader_vars>>
    /\ UNCHANGED <<cobs_vars, msg_vars, enc_vars, now, last_send_time, status, force,
                   session_base, unscanned>>

\* updateReedMeasurement() again, nothing having been appended.
RescanReed ==
    /\ pc = "scanned_reed"
    /\ reed' = collectReedResponses(reed, responses)
    /\ pc' = "rescanned_reed"
    /\ UNCHANGED <<call, expected_seq, snapshot, waited, wait_base, matched, ack_result, ret>>
    /\ UNCHANGED <<seq_counter, link, reader_vars>>
    /\ UNCHANGED <<cobs_vars, msg_vars, enc_vars, now, last_send_time, status, force,
                   session_base, unscanned>>

InitScan ==
    /\ CobsIdle
    /\ MsgIdle
    /\ EncIdle
    /\ now = 0
    /\ last_send_time = 0
    /\ InitScanForce \/ InitScanReed
    /\ buffer = <<>>
    /\ rx_calls = 0
    /\ rx_data = <<>>
    /\ rx_pos = 0
    /\ clock = Len(responses)
    /\ call = NoCall
    /\ expected_seq = U32(0)
    /\ snapshot = <<>>
    /\ waited = 0
    /\ wait_base = 0
    /\ matched = NoResponse
    /\ ack_result = FALSE
    /\ session_base = 0
    /\ unscanned = {}

NextScan ==
    \/ ScanForce
    \/ RescanForce
    \/ ScanReed
    \/ RescanReed

SpecScan == InitScan /\ [][NextScan]_vars

(***************************************************************************)
(* Properties of the framing codec.                                         *)
(***************************************************************************)
HasByte(bytes, byte) == \E k \in 1..Len(bytes) : bytes[k] = byte

\* The positions of the code bytes of a frame: the first byte, and the byte
\* that follows the block each code byte describes.
RECURSIVE CodePositions(_, _)
CodePositions(frame, k) ==
    IF k >= Len(frame) THEN {}
    ELSE {k} \cup (IF frame[k] = 0 THEN {} ELSE CodePositions(frame, k + frame[k]))

\* C1: decoding an encoded byte string, its trailing delimiter removed,
\* gives the byte string back, whatever it holds (nothing, zeros, a zero at
\* the end, runs of 254 and more non-zero bytes).
C1_RoundTrip == cobs_pc = "decoded" => cobs_out = cobs_in

\* A run of 254 non-zero bytes followed by a zero has been encoded and decoded.
C1_Witness ==
    /\ cobs_pc = "decoded"
    /\ cobs_in = RunOf(COBS_FULL - 1, 7) \o <<0>>
    /\ cobs_out = cobs_in

\* C2: an encoded frame ends with the delimiter, holds no zero before it,
\* and every code byte in it describes at most 254 data bytes (is at most
\* 0xFF) and is followed by that many bytes of the frame.
C2_FrameShape ==
    cobs_pc # "input" =>
        /\ Len(cobs_frame) >= 2
        /\ cobs_frame[Len(cobs_frame)] = DELIMITER
        /\ \A k \in 1..(Len(cobs_frame) - 1) : cobs_frame[k] \in 1..255
        /\ \A k \in CodePositions(cobs_frame, 1) :
              /\ cobs_frame[k] - 1 <= 254
              /\ k + cobs_frame[k] <= Len(cobs_frame)

\* A frame for data with a zero, and with more than 254 non-zero bytes in a row.
C2_Witness ==
    /\ cobs_pc = "encoded"
    /\ HasByte(cobs_in, 0)
    /\ Len(cobs_in) > COBS_FULL
    /\ Cardinality(CodePositions(cobs_frame, 1)) >= 3

(***************************************************************************)
(* Properties of the message codec.                                         *)
(***************************************************************************)
\* C3: parsing a built message gives the fields it was built from, the
\* host address as its source, the payload's length, and the payload.
C3_BuildParse ==
    (msg_pc = "parsed" /\ msg_touched = 0) =>
        /\ msg_parsed # None
        /\ msg_parsed[1].msg_type = msg_in.msg_type
        /\ msg_parsed[1].seq = msg_in.seq
        /\ msg_parsed[1].dst = msg_in.dst
        /\ msg_parsed[1].flags = msg_in.flags
        /\ msg_parsed[1].src = ADDR_PC
        /\ msg_parsed[1].payload_len = Len(msg_in.payload)
        /\ msg_parsed[2] = msg_in.payload

\* A message with the largest sequence number and a two-byte payload was
\* built and parsed.
C3_Witness ==
    /\ msg_pc = "parsed"
    /\ msg_touched = 0
    /\ msg_in.seq = SEQ_MAX
    /\ Len(msg_in.payload) = 2
    /\ msg_parsed # None

\* C4: a built message with the value of any one byte changed is rejected
\* by parse_message.
C4_AnyByteChangeRejected ==
    (msg_pc = "parsed" /\ msg_touched # 0) => msg_parsed = None

(***************************************************************************)
(* Properties of the reader.                                                *)
(***************************************************************************)
\* The non-empty frames the bytes complete, in order; cur is the frame
\* being collected.
RECURSIVE CompletedFrames(_, _, _)
CompletedFrames(bytes, k, cur) ==
    IF k > Len(bytes) THEN <<>>
    ELSE IF bytes[k] = DELIMITER
         THEN (IF Len(cur) > 0 THEN <<cur>> ELSE <<>>)
              \o CompletedFrames(bytes, k + 1, <<>>)
         ELSE CompletedFrames(bytes, k + 1, Append(cur, bytes[k]))

\* The XOR of the bytes from position k on.
RECURSIVE XorFrom(_, _)
XorFrom(bytes, k) ==
    IF k > Len(bytes) THEN 0 ELSE XorTable[bytes[k]][XorFrom(bytes, k + 1)]

\* The payload slice of decoded bytes: payload_len bytes after the header.
PayloadSlice(value) ==
    SubSeq(value, HEADER_SIZE + 1,
           Min(HEADER_SIZE + value[6] + (256 * value[7]), Len(value)))

\* The decoded bytes are at least a header long and their checksum byte is
\* the XOR of the ten bytes before it and of the payload slice.
PassesBothTests(value) ==
    /\ Len(value) >= HEADER_SIZE
    /\ value[HEADER_SIZE] =
           XorFrom(SubSeq(value, 1, HEADER_SIZE - 1) \o PayloadSlice(value), 1)

FrameAccepted(frame) == PassesBothTests(cobs_decode(frame))

\* Every response in the list was made from decoded bytes that pass both
\* tests, and its fields are those of the bytes.
StoredResponsesValid ==
    \A k \in 1..Len(responses) :
        /\ PassesBothTests(responses[k].value)
        /\ responses[k].msg_type = responses[k].value[1]
        /\ responses[k].seq = <<responses[k].value[4] + (256 * responses[k].value[5]),
                                responses[k].value[2] + (256 * responses[k].value[3])>>
        /\ responses[k].payload = PayloadSlice(responses[k].value)

\* The bytes a step of the reader passes: those of the call it begins, or
\* of the call it is in, from the position it had reached.
BytesPassed ==
    SubSeq(rx_data', (IF rx_calls' # rx_calls THEN 0 ELSE rx_pos) + 1, rx_pos')

\* A step of the reader, at the head of a data_received call or further
\* on in its loop, appends one response for each frame it completes that
\* passes both tests and nothing for a frame that fails one; it leaves the
\* responses already stored and the state of the caller as they were.
ReaderAppendsValidOnly ==
    rx_calls' # rx_calls \/ rx_pos' # rx_pos =>
        \A good \in {SelectSeq(CompletedFrames(buffer \o BytesPassed, 1, <<>>),
                               FrameAccepted)} :
            /\ Len(responses') = Len(responses) + Len(good)
            /\ SubSeq(responses', 1, Len(responses)) = responses
            /\ \A k \in 1..Len(good) : \A frame \in {good[k]} :
                  responses'[Len(responses) + k].value = cobs_decode(frame)
            /\ UNCHANGED caller_vars

\* C5: each response in the reader's list was created from a frame whose
\* decoded bytes are at least 11 long and whose recomputed XOR checksum
\* equals the received one; a frame failing either test appends nothing,
\* raises nothing to the caller and leaves the list unchanged.
C5_OnlyValidFramesStored ==
    /\ []StoredResponsesValid
    /\ [][ReaderAppendsValidOnly]_vars

\* Two reads, one of the frame with the changed checksum and one of two
\* data frames around a short frame, left the two data responses.
C5_Witness ==
    /\ rx_calls = 2
    /\ created = 2
    /\ Len(responses) = 2
    /\ \A k \in 1..2 : responses[k].msg_type = DATA_FORCE

(***************************************************************************)
(* Properties of the sequence numbers.                                      *)
(***************************************************************************)
\* The number after s: s + 1, and 1 after 0xFFFFFFFF.
SeqAfter(s) ==
    IF s = <<65535, 65535>> THEN <<0, 1>>
    ELSE IF s[2] = 65535 THEN <<s[1] + 1, 0>> ELSE <<s[1], s[2] + 1>>

\* The sequence number in the bytes written to the link.
SeqOnWire(encoded) ==
    LET raw == cobs_decode(SubSeq(encoded, 1, Len(encoded) - 1))
    IN <<raw[4] + (256 * raw[5]), raw[2] + (256 * raw[3])>>

\* C6: the sequence numbers of the sends of one device are each the
\* number after the previous one, 1 following 0xFFFFFFFF; 0 is never used,
\* and every send, each of the two of an LED set followed by an LED show
\* included, consumes exactly one number.
C6_SequenceNumbers ==
    /\ \A k \in 1..Len(link) :
          /\ link[k].seq # <<0, 0>>
          /\ link[k].seq[1] \in 0..65535
          /\ SeqOnWire(link[k].encoded) = link[k].seq
    /\ \A k \in 1..(Len(link) - 1) : link[k + 1].seq = SeqAfter(link[k].seq)
    /\ Len(link) > 0 => link[1].seq \in SeqStarts
    /\ Len(link) > 0 => seq_counter = SeqAfter(link[Len(link)].seq)
    /\ Len(link) = 0 => seq_counter \in SeqStarts
    /\ pc \in {"wait_head", "wait_scan", "ack_done"} =>
          (Len(link) > 0 /\ expected_seq = link[Len(link)].seq)

\* An LED set sent with 0xFFFFFFFF was followed by its LED show sent with 1.
C6_Witness ==
    /\ Len(link) = 2
    /\ link[1].msg_type = CMD_LED_SET_N
    /\ link[1].seq = SEQ_MAX
    /\ link[2].msg_type = CMD_LED_SHOW
    /\ link[2].seq = U32(1)

(***************************************************************************)
(* Properties of _wait_for_ack.                                             *)
(***************************************************************************)
InWait == pc \in {"wait_head", "wait_scan"}

IsAckOrNack(r) == r.msg_type = MSG_ACK \/ r.msg_type = MSG_NACK

\* C7: a wait for sequence number s is satisfied only by a response of
\* type ACK or NACK whose seq is s: not by an ACK or NACK of another
\* outstanding sequence number, and not by a sensor-data response with
\* seq s.  A wait that was not satisfied ended on the clock.
C7_OnlyMatchingAckSatisfies ==
    pc = "ack_done" =>
        /\ matched # NoResponse => (IsAckOrNack(matched) /\ matched.seq = expected_seq)
        /\ ack_result => (matched.msg_type = MSG_ACK /\ matched.seq = expected_seq)
        /\ matched = NoResponse => (~ack_result /\ waited >= TimeoutTicks)

\* With two sequence numbers outstanding, a wait ended unsatisfied while the
\* list held the ACK or NACK of the other number and a data response with
\* the awaited one.
C7_Witness ==
    /\ pc = "ack_done"
    /\ matched = NoResponse
    /\ Cardinality(SentSeqs) = 2
    /\ \E k \in 1..Len(responses) :
          IsAckOrNack(responses[k]) /\ responses[k].seq # expected_seq
    /\ \E k \in 1..Len(responses) :
          responses[k].msg_type = DATA_FORCE /\ responses[k].seq = expected_seq

\* The list without its k-th element.
WithoutIndex(lst, k) ==
    [j \in 1..(Len(lst) - 1) |-> IF j < k THEN lst[j] ELSE lst[j + 1]]

\* C8: the step of a wait that finds a matching ACK or NACK removes exactly
\* that response from the shared list, the others staying in their order,
\* and its result is True for an ACK and False for a NACK whatever its
\* error code; the call returns that result.
C8_MatchRemovesOne ==
    [][/\ (pc = "wait_scan" /\ pc' = "ack_done") =>
            \E k \in 1..Len(responses) :
                /\ matched' = responses[k]
                /\ IsAckOrNack(responses[k])
                /\ responses[k].seq = expected_seq
                /\ responses' = WithoutIndex(responses, k)
                /\ ack_result' = (responses[k].msg_type = MSG_ACK)
       /\ (pc = "ack_done" /\ pc' = "idle" /\ matched # NoResponse) =>
            ret' = (IF matched.msg_type = MSG_ACK THEN "True" ELSE "False")
      ]_vars

\* A wait matched a NACK with an unknown error code, gave False, and left
\* the two data responses of the list in their order.
C8_Witness ==
    /\ pc = "ack_done"
    /\ matched.msg_type = MSG_NACK
    /\ matched.payload = <<200>>
    /\ ~ack_result
    /\ Len(responses) = 2
    /\ responses[1].msg_type = DATA_FORCE
    /\ responses[2].msg_type = DATA_FORCE
    /\ responses[1].uid < responses[2].uid

\* The responses of the list as the wait began are still its first ones.
IsPrefix(a, b) == Len(a) <= Len(b) /\ SubSeq(b, 1, Len(a)) = a

\* C9: a wait always comes to an end; if no ACK or NACK with the awaited
\* seq was appended it gives False, after the timeout has elapsed, as a
\* value and not as an exception, and no step of it removed a response.
C9_TimeoutReturnsFalse ==
    /\ InWait ~> (pc = "ack_done")
    /\ [](pc = "ack_done" /\ matched = NoResponse =>
             (~ack_result /\ waited >= TimeoutTicks))
    /\ [](ret \in {"none", "True", "False"})
    /\ [][(InWait /\ matched' = NoResponse) => IsPrefix(responses, responses')]_vars
    /\ [][(pc = "ack_done" /\ pc' = "idle" /\ matched = NoResponse) =>
             (ret' = "False" /\ responses' = responses)]_vars

\* A wait ended on the clock with False while responses appended during it
\* are all in the list.
C9_Witness ==
    /\ pc = "ack_done"
    /\ matched = NoResponse
    /\ ~ack_result
    /\ waited = TimeoutTicks
    /\ created > wait_base
    /\ Len(responses) = created

\* The identities of the responses of the list appended since the wait began.
AppendedDuringWait == SelectSeq([k \in 1..Len(responses) |-> responses[k].uid],
                                LAMBDA u : u > wait_base)

\* The identities wait_base + 1 .. created without the matched one, ascending.
RECURSIVE ArrivalsExcept(_, _, _)
ArrivalsExcept(from, to, skip) ==
    IF from > to THEN <<>>
    ELSE (IF from = skip THEN <<>> ELSE <<from>>)
         \o ArrivalsExcept(from + 1, to, skip)

\* C10: under every interleaving of reader appends with the steps of a
\* wait, the responses appended since the wait began, the matched ACK or
\* NACK excepted, are all in the shared list, in arrival order, during the
\* wait and when it returns.
C10_AppendsSurviveWait ==
    pc \in {"wait_head", "wait_scan", "ack_done"} =>
        AppendedDuringWait = ArrivalsExcept(wait_base + 1, created, matched.uid)

\* A wait removed its match between two appends of one data_received call:
\* the first data response of the call, which arrived after the match and
\* during the wait, is in the list, and the reader is still inside the call.
C10_Witness ==
    /\ pc = "ack_done"
    /\ matched # NoResponse
    /\ matched.uid > wait_base
    /\ rx_pos < Len(rx_data)
    /\ Len(responses) = 1
    /\ responses[1].uid > matched.uid

(***************************************************************************)
(* Properties of the response timestamps.                                   *)
(***************************************************************************)
\* C11: the responses are in the list in the order their frames completed,
\* and after any sequence of appends, ACK removals, clearResponses and
\* resetClock calls their timestamps t do not decrease from the first to
\* the last.
C11_TimestampsNonDecreasing ==
    \A k \in 1..(Len(responses) - 1) :
        /\ responses[k].uid < responses[k + 1].uid
        /\ responses[k].t <= responses[k + 1].t

(***************************************************************************)
(* Properties of the rate limiter.                                          *)
(***************************************************************************)
\* C12: a rate-limited LED call made when less than the minimum interval
\* has elapsed since the last command was sent is skipped: it returns
\* False, writes nothing to the link and consumes no sequence number, and
\* nothing of it is left to be sent later.
C12_RateLimitedCallSkipped ==
    [][(/\ LedCall(TRUE)
        /\ Len(link) > 0
        /\ now - link[Len(link)].at < RateLimitTicks)
       => (/\ ret' = "False"
           /\ pc' = "idle"
           /\ link' = link
           /\ seq_counter' = seq_counter)]_vars

(***************************************************************************)
(* Properties of the command encoders.                                      *)
(***************************************************************************)
\* [N, holes..., r, g, b], written out position by position.
FormatABytes(holes, rgb) ==
    [k \in 1..(Len(holes) + 4) |->
        IF k = 1 THEN Len(holes)
        ELSE IF k <= Len(holes) + 1 THEN holes[k - 1]
        ELSE rgb[k - Len(holes) - 1]]

\* [N, (hole, r, g, b) per hole], written out position by position.
FormatBBytes(holes, list) ==
    [k \in 1..(1 + (4 * Len(holes))) |->
        IF k = 1 THEN Len(holes)
        ELSE IF (k - 2) % 4 = 0 THEN holes[((k - 2) \div 4) + 1]
        ELSE list[((k - 2) \div 4) + 1][(k - 2) % 4]]

\* One shared color is given, or every entry of the color list is the first.
OneColor(colors) ==
    \/ colors.shared
    \/ /\ Len(colors.list) > 0
       /\ \A i, j \in 1..Len(colors.list) : colors.list[i] = colors.list[j]

TheColor(colors) == IF colors.shared THEN colors.rgb ELSE colors.list[1]

\* C13: for N >= 1 holes encode_led_payload_auto gives the 1+N+3 Format A
\* bytes [N, holes..., r, g, b] exactly when one shared color is given or
\* every entry of the color list equals the first; otherwise, for a list
\* with one color per hole, it gives the 1+4N Format B bytes
\* [N, (hole, r, g, b) per hole], holes and colors paired in input order.
C13_LedFormatChoice ==
    (enc_pc = "encoded" /\ enc_in.fn = "led" /\ Len(enc_in.holes) > 0) =>
        /\ OneColor(enc_in.colors) =>
              /\ enc_out = FormatABytes(enc_in.holes, TheColor(enc_in.colors))
              /\ Len(enc_out) = 1 + Len(enc_in.holes) + 3
        /\ (~enc_in.colors.shared /\ Len(enc_in.colors.list) > 0
               /\ ~OneColor(enc_in.colors)) =>
              /\ Len(enc_out) # 1 + Len(enc_in.holes) + 3
              /\ Len(enc_in.colors.list) = Len(enc_in.holes) =>
                    /\ enc_out = FormatBBytes(enc_in.holes, enc_in.colors.list)
                    /\ Len(enc_out) = 1 + (4 * Len(enc_in.holes))

\* Three holes with three colors, the last unlike the first two, were
\* encoded in Format B (13 bytes).
C13_Witness ==
    /\ enc_pc = "encoded"
    /\ enc_in.fn = "led"
    /\ enc_in.holes = <<3, 7, 11>>
    /\ ~enc_in.colors.shared
    /\ enc_in.colors.list = <<<<10, 20, 30>>, <<10, 20, 30>>, <<40, 50, 60>>>>
    /\ enc_out = <<3, 3, 10, 20, 30, 7, 10, 20, 30, 11, 40, 50, 60>>

\* C14: an LED set requested with a color list whose length differs from
\* the number of holes is rejected with an error before any byte is written
\* to the link, whatever the list holds (entries that are all equal
\* included).
C14_MismatchedListRejected ==
    [][\A in \in LedInputs, show \in BOOLEAN, wait_ack \in BOOLEAN :
          (/\ SetLedColors(in, show, wait_ack)
           /\ ~in.colors.shared
           /\ Len(in.colors.list) # Len(in.holes))
          => (/\ ret' \in {"ValueError", "IndexError"}
              /\ link' = link
              /\ seq_counter' = seq_counter)]_vars

\* round(p / q) for positive integers, a tie going to the even neighbour.
RoundDiv(p, q) ==
    LET f == p \div q
        r == p % q
    IN IF 2 * r < q THEN f
       ELSE IF 2 * r > q THEN f + 1
       ELSE IF f % 2 = 0 THEN f ELSE f + 1

\* n as four bytes, least significant first.
LittleEndian32(n) ==
    <<n % 256, (n \div 256) % 256, (n \div 65536) % 256, (n \div 16777216) % 256>>

\* 'white', 'blue', 'both' in lower case.
White == <<119, 104, 105, 116, 101>>
Blue == <<98, 108, 117, 101>>
Both == <<98, 111, 116, 104>>

\* device with its capital letters made small.
Lowered(device) ==
    [k \in 1..Len(device) |->
        IF device[k] >= 65 /\ device[k] <= 90 THEN device[k] + 32 ELSE device[k]]

\* C15: for a positive integer rate, encode_force_start_payload gives
\* round(1_000_000 / rate) as a little-endian u32 followed by the device
\* code 0 for 'white', 1 for 'blue', 2 for 'both' (in any case of letters),
\* and an invalid-argument error for any other string.
C15_ForceStartPayload ==
    (enc_pc = "encoded" /\ enc_in.fn = "force") =>
        LET d == Lowered(enc_in.device)
            period == LittleEndian32(RoundDiv(1000000, enc_in.rate))
        IN IF d = White THEN enc_out = period \o <<0>>
           ELSE IF d = Blue THEN enc_out = period \o <<1>>
           ELSE IF d = Both THEN enc_out = period \o <<2>>
           ELSE enc_out = ValueError

(***************************************************************************)
(* Properties of the force engine.                                          *)
(***************************************************************************)
\* c is a startForceMeasurement call whose device selector is none of
\* white, blue and both.
InvalidStart(c) ==
    /\ c.name = "startForceMeasurement"
    /\ Lowered(c.device) \notin {White, Blue, Both}

\* C16: startForceMeasurement with a device selector other than
\* white/blue/both fails with a validation error before anything is sent:
\* from its first step to its last no message is written to the link, no
\* sequence number is consumed and the engine's Measuring flag does not
\* change, and the call ends by raising ValueError.
C16_InvalidSelectorRejected ==
    [][/\ (InvalidStart(call) \/ InvalidStart(call')) =>
            /\ link' = link
            /\ seq_counter' = seq_counter
            /\ force'.measuring = force.measuring
       /\ (InvalidStart(call) /\ ~InvalidStart(call')) =>
            /\ ret' = "ValueError"
            /\ pc' = "idle"]_vars

\* A start with an invalid selector has raised ValueError on a device that
\* has sent nothing, and the engine is Idle.
C16_Witness ==
    /\ ret = "ValueError"
    /\ pc = "idle"
    /\ link = <<>>
    /\ seq_counter = U32(1)
    /\ ~force.measuring

\* The caller is at the end of a startForceMeasurement whose wait is over.
StartWaitOver == pc = "ack_done" /\ call.name = "startForceMeasurement"

\* The wait that is over removed an ACK carrying the sequence number of a
\* force-start command written to the link.
ForceStartAcked ==
    /\ matched.msg_type = MSG_ACK
    /\ matched.seq = expected_seq
    /\ \E k \in 1..Len(link) :
          link[k].seq = expected_seq /\ link[k].msg_type = CMD_FORCE_START

\* C17: the force engine goes from Idle to Measuring only at the end of a
\* startForceMeasurement whose force-start command was ACKed; a
\* startForceMeasurement whose command was NACKed or timed out leaves the
\* Measuring flag as it was and returns False, and one whose command was
\* ACKed leaves the engine Measuring and returns True.
C17_MeasuringOnlyAfterAck ==
    [][/\ (~force.measuring /\ force'.measuring) => (StartWaitOver /\ ForceStartAcked)
       /\ (StartWaitOver /\ pc' = "idle") =>
            IF ForceStartAcked
            THEN force'.measuring /\ ret' = "True"
            ELSE force'.measuring = force.measuring /\ ret' = "False"]_vars

\* The only command sent is a force-start; its startForceMeasurement has
\* returned False and the engine is Idle.
C17_Witness ==
    /\ pc = "idle"
    /\ ret = "False"
    /\ Len(link) = 1
    /\ link[1].msg_type = CMD_FORCE_START
    /\ ~force.measuring

\* Both channels' series are empty and their current and maximum force 0.
ForceDataEmpty(f) ==
    /\ f.times = <<>>
    /\ f.responses = <<>>
    /\ f.whiteForceValues = <<>>
    /\ f.blueForceValues = <<>>
    /\ f.whiteForceTimestamps = <<>>
    /\ f.blueForceTimestamps = <<>>
    /\ f.whiteForce = 0
    /\ f.blueForce = 0
    /\ f.maxWhiteForce = 0
    /\ f.maxBlueForce = 0

\* The step that writes a force-start command to the link.
ForceStartSent ==
    /\ pc = "force_send"
    /\ Len(link') = Len(link) + 1
    /\ link'[Len(link')].msg_type = CMD_FORCE_START

\* C18: every startForceMeasurement first empties both channels' value and
\* timestamp series, sets current and maximum force to 0 and clears the
\* device's response buffer, then sets the engine's cursor to the number of
\* responses in the buffer at that moment; when the force-start command is
\* written to the link the series are still empty, the buffer holds only
\* responses created after the clear and the cursor lies within it.  No
\* response created before the clear is ever in the series of the session
\* that follows.
C18_StartResetsSession ==
    /\ [][/\ (pc = "idle" /\ pc' = "force_count") =>
               (ForceDataEmpty(force') /\ responses' = <<>>)
          /\ (pc = "force_count" /\ pc' = "force_send") =>
               /\ ForceDataEmpty(force')
               /\ force'.start_response_count = Len(responses)
          /\ ForceStartSent =>
               /\ ForceDataEmpty(force')
               /\ force'.start_response_count <= Len(responses')
               /\ \A k \in 1..Len(responses') : responses'[k].uid > session_base]_vars
    /\ [](\A k \in 1..Len(force.responses) : force.responses[k].uid > session_base)

\* A second force-start command has been sent after a first session that
\* was Measuring and had received its ACK and a sample; the series are empty.
C18_Witness ==
    /\ pc \in {"wait_head", "wait_scan"}
    /\ call.name = "startForceMeasurement"
    /\ Len(link) = 2
    /\ link[1].msg_type = CMD_FORCE_START
    /\ link[2].msg_type = CMD_FORCE_START
    /\ force.measuring
    /\ session_base >= 2
    /\ ForceDataEmpty(force)

\* No response is in the force series twice.
NoResponseCollectedTwice ==
    \A i, j \in 1..Len(force.responses) :
        force.responses[i].uid = force.responses[j].uid => i = j

\* C19: across the updateForceMeasurement and stopForceMeasurement calls of
\* a session (with LED commands between them) no response is scanned twice:
\* each response contributes at most one entry to the force series, and the
\* engine's cursor never moves backwards; it is set anew only by the count
\* that opens the next session.
C19_NoRescan ==
    /\ []NoResponseCollectedTwice
    /\ [][pc # "force_count" =>
            force'.start_response_count >= force.start_response_count]_vars

\* stopForceMeasurement has drained the list after samples arrived in two
\* reads: three samples are in the series and the cursor stands behind them.
C19_Witness ==
    /\ pc \in {"wait_head", "wait_scan"}
    /\ call.name = "stopForceMeasurement"
    /\ force.measuring
    /\ Len(force.responses) = 3
    /\ force.start_response_count = 3
    /\ Len(responses) = 3

\* The step is a scan of a Measuring engine: updateForceMeasurement (the
\* idle caller gets None back, and neither the shared list nor the link nor
\* the reader has moved), or the drain at the head of stopForceMeasurement.
ForceScan ==
    /\ pc = "idle"
    /\ force.measuring
    /\ \/ /\ pc' = "idle"
          /\ ret' = "None"
          /\ responses' = responses
          /\ link' = link
          /\ rx_calls' = rx_calls
       \/ call'.name = "stopForceMeasurement"

\* The identities of the responses in the force series f.
CollectedUids(f) == {f.responses[k].uid : k \in 1..Len(f.responses)}

\* C20: while the force engine is Measuring, every force-data response the
\* reader has appended to the shared list since the last scan is in the
\* engine's series after the next updateForceMeasurement or the drain of
\* stopForceMeasurement, whatever LED commands and clearResponses() calls
\* lie in between.
C20_NothingMissed ==
    [][ForceScan => unscanned \subseteq CollectedUids(force')]_vars

(***************************************************************************)
(* Properties of the scans.                                                 *)
(***************************************************************************)
\* r is a force sample of the white (the blue) dynamometer.
IsWhiteSample(r) == r.msg_type = DATA_FORCE /\ Len(r.payload) = 7 /\ r.payload[7] = 0
IsBlueSample(r) == r.msg_type = DATA_FORCE /\ Len(r.payload) = 7 /\ r.payload[7] = 1

\* The value a sample carries, read as a signed 16-bit number.
SampleValue(r) ==
    LET u == r.payload[5] + (256 * r.payload[6])
    IN IF u < 32768 THEN u ELSE u - 65536

ValuesOf(samples) == [k \in 1..Len(samples) |-> SampleValue(samples[k])]

\* The largest entry of a non-empty sequence of numbers.
Largest(values) ==
    CHOOSE m \in {values[k] : k \in 1..Len(values)} :
        \A k \in 1..Len(values) : values[k] <= m

\* The series, current value and maximum of one channel agree with the
\* samples received for it.
ChannelAgrees(samples, values, timestamps, current, maximum) ==
    /\ values = ValuesOf(samples)
    /\ Len(timestamps) = Len(values)
    /\ Len(values) > 0 =>
          /\ current = values[Len(values)]
          /\ maximum = Largest(values)

\* C21: after the force engine has collected a sequence of force-data
\* responses, each channel's value series equals the received values in
\* arrival order, its timestamp series has the same length, its current
\* value is the last received value and, when the series is non-empty, its
\* maximum is the largest value in the series (values are signed 16-bit).
C21_SeriesAndMaximum ==
    pc = "scanned_force" =>
        /\ ChannelAgrees(SelectSeq(responses, IsWhiteSample), force.whiteForceValues,
                         force.whiteForceTimestamps, force.whiteForce,
                         force.maxWhiteForce)
        /\ ChannelAgrees(SelectSeq(responses, IsBlueSample), force.blueForceValues,
                         force.blueForceTimestamps, force.blueForce,
                         force.maxBlueForce)

\* stopForceMeasurement is called on a Measuring engine.
ForceStopCalled ==
    /\ pc = "idle"
    /\ force.measuring
    /\ call'.name = "stopForceMeasurement"
    /\ pc' # "idle"

\* stopForceMeasurement returns.
ForceStopReturns ==
    /\ pc = "ack_done"
    /\ call.name = "stopForceMeasurement"
    /\ pc' = "idle"

\* The message a step puts on the line.
MessageSent == link'[Len(link')]

\* C22: stopForceMeasurement on a Measuring engine first collects the
\* samples of the session that are waiting in the list, then sends force-stop, and when it returns the
\* engine is Idle whether the command was ACKed, NACKed or timed out, and
\* the outcome is what it returns.
C22_StopLeavesIdle ==
    /\ [][ForceStopCalled =>
             /\ unscanned \subseteq CollectedUids(force')
             /\ Len(link') = Len(link) + 1
             /\ MessageSent.msg_type = CMD_FORCE_STOP]_vars
    /\ [][ForceStopReturns =>
             /\ ~force'.measuring
             /\ ret' = Bool(ack_result)]_vars

\* An engine has been updated and is updated again at once.
SecondUpdate == pc \in {"scanned_force", "scanned_reed"}

\* C23: for both engines, an update with no response appended since the
\* previous update changes nothing: series, current and maximum values,
\* per-hole counters, durations, open-interval starts, event lists and the
\* cursor stay as they are.
C23_UpdateIdempotent == [][SecondUpdate => force' = force /\ reed' = reed]_vars

\* A force session with two samples in its series has been updated twice.
C23_Witness == pc = "rescanned_force" /\ Len(force.times) >= 2

\* The reed snapshots of the list, in arrival order, and the state of hole h
\* before and in the k-th of them.
Snapshots == SelectSeq(responses, LAMBDA r : r.msg_type = DATA_REED)
StateIn(h, k) ==
    IF k = 0 \/ h \notin 0..20 THEN 0
    ELSE (Snapshots[k].payload[(h \div 8) + 1] \div (2 ^ (h % 8))) % 2

\* The snapshots in which hole h changes to state v.
Changes(h, v) == {k \in 1..Len(Snapshots) : StateIn(h, k - 1) # v /\ StateIn(h, k) = v}

\* The insertion a removal of hole h in snapshot k closes.
Matching(h, k) == CHOOSE j \in Changes(h, 1) : j < k /\ \A i \in Changes(h, 1) : i < k => i <= j

RECURSIVE SumOver(_, _, _)
SumOver(h, ks, acc) ==
    IF ks = {} THEN acc
    ELSE LET k == CHOOSE x \in ks : TRUE
         IN SumOver(h, ks \ {k},
                    acc + (Snapshots[k].t - Snapshots[Matching(h, k)].t))

\* The recorded events of hole h, as <<timestamp, action>> pairs in order.
EventsOf(r, h) ==
    LET idx == SelectSeq([k \in 1..Len(r.reedHoles) |-> k], LAMBDA k : r.reedHoles[k] = h)
    IN [k \in 1..Len(idx) |-> <<r.reedTimes[idx[k]], r.reedActions[idx[k]]>>]

\* The changes of hole h, as <<timestamp, new state>> pairs in order.
ChangesOf(h) ==
    LET idx == SelectSeq([k \in 1..Len(Snapshots) |-> k],
                         LAMBDA k : StateIn(h, k - 1) # StateIn(h, k))
    IN [k \in 1..Len(idx) |-> <<Snapshots[idx[k]].t, StateIn(h, idx[k])>>]

Monitored(r) == {r.monitored_holes[k] : k \in 1..Len(r.monitored_holes)}

\* C24: for every monitored hole and every sequence of reed snapshots
\* processed in a session, the insertion count is the number of 0-to-1
\* changes of the hole's state, the removal count the number of 1-to-0
\* changes, one (timestamp, hole, action) event is recorded per change and
\* none otherwise, and the cumulative duration is the sum over the closed
\* intervals of removal timestamp minus matching insertion timestamp;
\* holes that are not monitored produce no events.
C24_ReedCounts ==
    pc = "scanned_reed" /\ reed.measuring =>
        /\ \A h \in Monitored(reed) :
              /\ reed.insertion_counts[h] = Cardinality(Changes(h, 1))
              /\ reed.removal_counts[h] = Cardinality(Changes(h, 0))
              /\ EventsOf(reed, h) = ChangesOf(h)
              /\ reed.active_durations[h] = SumOver(h, Changes(h, 0), 0)
        /\ \A k \in 1..Len(reed.reedHoles) : reed.reedHoles[k] \in Monitored(reed)
        /\ Len(reed.reedTimes) = Len(reed.reedHoles)
        /\ Len(reed.reedActions) = Len(reed.reedHoles)

(***************************************************************************)
(* Properties of the reed engine.                                           *)
(***************************************************************************)
\* Hole h has an open interval: an insertion time is recorded for it.
Open(r, h) == r.last_insert_time[h] # None

\* startReedMeasurement with a valid hole specification has reset the engine.
ReedStartCalled == pc = "idle" /\ pc' = "reed_count"

\* C25: in every state of a reed session each monitored hole has at most
\* one open interval (its insertions exceed its removals by one when it has
\* an open interval and by nothing when it has none), and it has an open
\* interval exactly when its remembered state is 1; every hole starts
\* released with no open interval.
C25_OpenIffInserted ==
    /\ [](\A h \in Monitored(reed) :
             /\ Open(reed, h) <=> reed.last_states[h] = 1
             /\ reed.insertion_counts[h] - reed.removal_counts[h]
                    = IF Open(reed, h) THEN 1 ELSE 0)
    /\ [][ReedStartCalled =>
             \A h \in Monitored(reed') :
                 reed'.last_states[h] = 0 /\ ~Open(reed', h)]_vars

\* stopReedMeasurement is called on a Measuring engine.
ReedStopCalled ==
    /\ pc = "idle"
    /\ reed.measuring
    /\ call'.name = "stopReedMeasurement"
    /\ pc' # "idle"

\* The time between each removal and the insertion before it, summed over
\* the first n events of a hole (<<timestamp, action>> pairs).
RECURSIVE ClosedTime(_, _)
ClosedTime(events, n) ==
    IF n < 2 THEN 0
    ELSE ClosedTime(events, n - 1)
         + (IF events[n][2] = 0 THEN events[n][1] - events[n - 1][1] ELSE 0)

\* The time hole h has been inserted according to the snapshots of the
\* session, an insertion that no removal follows lasting until reading
\* stop_time of the clock that stamps the responses.
InsertedTime(h, stop_time) ==
    LET changes == ChangesOf(h)
    IN ClosedTime(changes, Len(changes))
       + (IF Len(changes) > 0 /\ changes[Len(changes)][2] = 1
          THEN stop_time - changes[Len(changes)][1] ELSE 0)

\* C26: when stopReedMeasurement is called on a Measuring engine the pending
\* responses are drained first, and then the duration of every hole that is
\* still inserted grows by the stop time minus its insertion timestamp, both
\* read on the clock that stamps the events; a hole that is not inserted
\* gains nothing.
C26_StopClosesIntervals ==
    [][ReedStopCalled =>
          /\ reed'.start_response_count = Len(responses)
          /\ \A h \in Monitored(reed') :
                reed'.active_durations[h] = InsertedTime(h, clock)]_vars

\* Hole h had an insertion or a removal in the session: its state changes
\* in one of the session's snapshots.
Active(h) == Changes(h, 1) \cup Changes(h, 0) # {}

\* The entries of the summary of r for hole h.
EntriesOf(r, h) == {k \in 1..Len(r.reedSummary) : r.reedSummary[k].hole = h}

\* C27: the summary built by stopReedMeasurement has exactly one entry
\* {hole, insertions, removals, duration} for each monitored hole with at
\* least one insertion or removal in the session and none for a hole
\* without activity; the entries are in ascending order of hole index and
\* carry the session's counters.
C27_SummaryPerActiveHole ==
    [][ReedStopCalled =>
          /\ \A h \in Monitored(reed') :
                Cardinality(EntriesOf(reed', h)) = IF Active(h) THEN 1 ELSE 0
          /\ \A k \in 1..Len(reed'.reedSummary) :
                LET entry == reed'.reedSummary[k]
                IN /\ entry.hole \in Monitored(reed')
                   /\ entry.insertions = reed'.insertion_counts[entry.hole]
                   /\ entry.removals = reed'.removal_counts[entry.hole]
                   /\ entry.duration = reed'.active_durations[entry.hole]
                   /\ k > 1 => reed'.reedSummary[k - 1].hole <= entry.hole]_vars

\* stopReedMeasurement returns.
ReedStopReturns ==
    /\ pc = "ack_done"
    /\ call.name = "stopReedMeasurement"
    /\ pc' = "idle"

\* C28: stopReedMeasurement on a Measuring reed engine sends the reed-stop
\* command, and when it returns the engine is Idle, whether the command was
\* ACKed, NACKed or timed out.
C28_ReedStopLeavesIdle ==
    /\ [][ReedStopCalled => pc' = "reed_stop_send" /\ link' = link]_vars
    /\ [][pc = "reed_stop_send" /\ pc' # pc =>
             /\ Len(link') = Len(link) + 1
             /\ MessageSent.msg_type = CMD_REED_STOP
             /\ pc' = "wait_head"]_vars
    /\ [][ReedStopReturns => ~reed'.measuring]_vars

\* The holes a specification stands for: 'all' 0..20, 'inner' 0..7, 'outer'
\* 8..20, 'none' no hole, an integer that hole, a list its elements.
AllHoles == [kind |-> "str", v |-> <<97, 108, 108>>]
InnerHoles == [kind |-> "str", v |-> <<105, 110, 110, 101, 114>>]
OuterHoles == [kind |-> "str", v |-> <<111, 117, 116, 101, 114>>]
NoHoles == [kind |-> "str", v |-> <<110, 111, 110, 101>>]
Resolved(holes) ==
    IF holes = AllHoles THEN 0..20
    ELSE IF holes = InnerHoles THEN 0..7
    ELSE IF holes = OuterHoles THEN 8..20
    ELSE IF holes = NoHoles THEN {}
    ELSE {holes.v[k] : k \in 1..Len(holes.v)}

\* A string that is none of the four keywords.
OtherString(holes) ==
    holes.kind = "str" /\ holes \notin {AllHoles, InnerHoles, OuterHoles, NoHoles}

\* C29: 'all' resolves to the holes 0..20, 'inner' to 0..7, 'outer' to 8..20
\* (inner and outer are disjoint and together equal all), 'none' to no hole,
\* an integer to that hole and a list to its elements; any other string is
\* rejected with a validation error, and startReedMeasurement given such a
\* string sends nothing and leaves every field of the engine unchanged.
C29_HoleSpecifications ==
    /\ [][\A holes \in HoleSpecs :
             StartReedMeasurement(100, holes) /\ holes.kind # "callable" =>
                 IF OtherString(holes)
                 THEN /\ ret' = "ValueError"
                      /\ pc' = "idle"
                      /\ link' = link
                      /\ reed' = reed
                 ELSE /\ pc' = "reed_count"
                      /\ Monitored(reed') = Resolved(holes)]_vars
    /\ [](reed.monitored_holes = parse_holes(AllHoles) =>
             LET inner == parse_holes(InnerHoles)
                 outer == parse_holes(OuterHoles)
             IN /\ \A j \in 1..Len(inner) : \A k \in 1..Len(outer) : inner[j] # outer[k]
                /\ Monitored(reed) = {inner[j] : j \in 1..Len(inner)}
                                     \cup {outer[k] : k \in 1..Len(outer)})

\* A start with an unknown keyword has been rejected on an engine that an
\* earlier start had set to the outer holes.
C29_Witness ==
    /\ ret = "ValueError"
    /\ pc = "idle"
    /\ Monitored(reed) = 8..20

\* The wait of a startReedMeasurement is over, and its command was ACKed.
ReedStartWaitOver == pc = "ack_done" /\ call.name = "startReedMeasurement"
ReedStartAcked ==
    /\ matched.msg_type = MSG_ACK
    /\ matched.seq = expected_seq
    /\ \E k \in 1..Len(link) :
          link[k].seq = expected_seq /\ link[k].msg_type = CMD_REED_START

\* C30: every startReedMeasurement with a valid hole specification empties
\* the event lists and the summary, sets every monitored hole to state 0
\* with zero insertions, zero removals, zero duration and no open interval,
\* clears the device's response list, records the number of responses as
\* the cursor, sends the reed-start command (0x14) through the device, and
\* makes the engine Measuring exactly when that command is ACKed: when the
\* call returns the engine is Measuring and the result True after an ACK,
\* and the engine is not Measuring and the result False otherwise.
C30_ReedStartResets ==
    /\ [][ReedStartCalled =>
             /\ reed'.reedTimes = <<>>
             /\ reed'.reedHoles = <<>>
             /\ reed'.reedActions = <<>>
             /\ reed'.reedSummary = <<>>
             /\ \A h \in Monitored(reed') :
                   /\ reed'.last_states[h] = 0
                   /\ reed'.insertion_counts[h] = 0
                   /\ reed'.removal_counts[h] = 0
                   /\ reed'.active_durations[h] = 0
                   /\ ~Open(reed', h)
             /\ responses' = <<>>]_vars
    /\ [][pc = "reed_count" /\ pc' # "reed_count" =>
             /\ pc' = "reed_send"
             /\ reed'.start_response_count = Len(responses)]_vars
    /\ [][pc = "reed_send" /\ pc' # "reed_send" =>
             /\ Len(link') = Len(link) + 1
             /\ MessageSent.msg_type = 20
             /\ MessageSent.seq = expected_seq']_vars
    /\ [][/\ (~reed.measuring /\ reed'.measuring) => (ReedStartWaitOver /\ ReedStartAcked)
          /\ (ReedStartWaitOver /\ pc' = "idle") =>
               IF ReedStartAcked
               THEN reed'.measuring /\ ret' = "True"
               ELSE ~reed'.measuring /\ ret' = "False"]_vars

(***************************************************************************)
(* SpecSamples: the force engine on one device that sends force-data        *)
(* messages with payloads of every shape.                                   *)
(***************************************************************************)
\* The payloads of the force-data messages the device sends: a white sample
\* of 5, a blue sample of -3, a sample of device 2, and payloads of 6, 8 and
\* 0 bytes.
SamplePayloads ==
    {<<1, 0, 0, 0, 5, 0, 0>>,
     <<2, 0, 0, 0, 253, 255, 1>>,
     <<3, 0, 0, 0, 9, 0, 2>>,
     <<1, 0, 0, 0, 5, 0>>,
     <<1, 0, 0, 0, 5, 0, 0, 0>>,
     <<>>}

\* A force-data message with the given payload, as the device frames it.
SampleFrame == [payload \in SamplePayloads |->
                   cobs_encode(device_message(DATA_FORCE, U32(0), payload))]

\* The ACK of command q, alone or with one force-data message behind it.
AckSampleChunks == [q \in SeqPool |->
                       {AckFrame(q)} \cup {AckFrame(q) \o SampleFrame[p]
                                           : p \in SamplePayloads}]

\* The well-formed samples among the payloads.
WellFormed == {p \in SamplePayloads : Len(p) = 7 /\ p[7] \in {0, 1}}

\* Two force-data messages in one chunk, the second one a well-formed sample.
SamplePairs == [p1 \in SamplePayloads, p2 \in WellFormed |->
                   SampleFrame[p1] \o SampleFrame[p2]]

\* What the serial port may hand to one data_received call: the ACK of a
\* command that was sent, alone or with one force-data message behind it, or
\* two force-data messages.
SampleChunks ==
    UNION {AckSampleChunks[q] : q \in SentSeqs}
    \cup {SamplePairs[p1, p2] : p1 \in SamplePayloads, p2 \in WellFormed}

NextSamples ==
    \/ \E data \in SampleChunks : DataReceived(data)
    \/ DataReceivedLoop
    \/ StartForceMeasurement(50, <<66, 111, 116, 104>>)
    \/ StartForceCount
    \/ StartForceSend
    \/ StartForceReturn
    \/ UpdateForceMeasurement
    \/ WaitTimeout
    \/ WaitSnapshot
    \/ WaitMatch
    \/ WaitSleep
    \/ Tick

SpecSamples == Init /\ [][NextSamples]_vars

(***************************************************************************)
(* Force-data messages with payloads of any length                          *)
(***************************************************************************)
\* The force value of channel device_id that a payload carries, as a
\* one-element sequence, or None.
PayloadValue(payload, device_id) ==
    IF Len(payload) = 7 /\ payload[7] = device_id
    THEN LET u == payload[5] + (256 * payload[6])
         IN <<IF u < 32768 THEN u ELSE u - 65536>>
    ELSE None

\* The values that the force-data responses in rs carry for one channel, in
\* order.
ChannelValues(rs, device_id) ==
    LET carrying == SelectSeq(rs, LAMBDA r : PayloadValue(r.payload, device_id) # None)
    IN [k \in 1..Len(carrying) |-> PayloadValue(carrying[k].payload, device_id)[1]]

\* data_received is handed two force-data messages with payloads p1 and p2
\* and processes the first; later it processes the second.
SamplesArrive(p1, p2) ==
    /\ rx_calls' = rx_calls + 1
    /\ rx_data' = SamplePairs[p1, p2]
SecondSample(p1, p2) ==
    /\ rx_calls' = rx_calls
    /\ rx_data = SamplePairs[p1, p2]
    /\ rx_pos' # rx_pos

\* The last response of rs is a force-data response with payload p.
EndsWith(rs, p) ==
    /\ Len(rs) >= 1
    /\ rs[Len(rs)].msg_type = DATA_FORCE /\ rs[Len(rs)].payload = p

\* C31: a validated force-data message always produces a Response, whatever
\* the length of its payload; a response with a 7-byte payload carries the
\* signed 16-bit value as whiteForce when the device byte is 0 and as
\* blueForce when it is 1, never both; a response with a payload of any
\* other length carries no force value, is still kept by the force engine,
\* and adds no sample to either channel's series.
C31_ForcePayloadLength ==
    /\ [][\A p1 \in SamplePayloads, p2 \in WellFormed :
              /\ SamplesArrive(p1, p2) =>
                    /\ Len(responses') = Len(responses) + 1
                    /\ EndsWith(responses', p1)
                    /\ rx_pos' = Len(SampleFrame[p1])
              /\ SecondSample(p1, p2) =>
                    /\ rx_pos = Len(SampleFrame[p1])
                    /\ Len(responses') = Len(responses) + 1
                    /\ EndsWith(responses', p2)
                    /\ rx_pos' = Len(rx_data)]_vars
    /\ [](\A k \in 1..Len(responses) :
              responses[k].msg_type = DATA_FORCE =>
                  /\ whiteForce(responses[k]) = PayloadValue(responses[k].payload, 0)
                  /\ blueForce(responses[k]) = PayloadValue(responses[k].payload, 1)
                  /\ whiteForce(responses[k]) = None \/ blueForce(responses[k]) = None)
    /\ [](/\ force.whiteForceValues = ChannelValues(force.responses, 0)
          /\ force.blueForceValues = ChannelValues(force.responses, 1)
          /\ Len(force.whiteForceTimestamps) = Len(force.whiteForceValues)
          /\ Len(force.blueForceTimestamps) = Len(force.blueForceValues)
          /\ Len(force.times) = Len(force.responses))
    /\ [][UpdateForceMeasurement /\ force.measuring =>
              Len(force'.responses) = Len(force.responses)
                  + Len(SelectSeq(slice_from(responses, force.start_response_count),
                                  LAMBDA r : r.msg_type = DATA_FORCE))]_vars

\* The engine has collected a force-data response with an 8-byte payload and
\* one with a white sample: the first added nothing to the series.
C31_Witness ==
    /\ Len(force.responses) = 2
    /\ Len(force.responses[1].payload) = 8
    /\ force.whiteForceValues = <<5>>
    /\ force.blueForceValues = <<>>


(***************************************************************************)
(* SpecChunks: one byte stream from the device, handed to data_received    *)
(* whole or split in two at any position.  The stream is held in cobs_in.   *)
(***************************************************************************)
\* The frames of the stream: an ACK, a force sample, a frame with a wrong
\* checksum, a frame shorter than a header, and a lone delimiter.
StreamFrames ==
    {AckFrame(U32(1)), DataFrame(U32(2)), BadChecksumFrame, ShortFrame, <<DELIMITER>>}

MaxStreamLen == 45  \* the longest stream, in bytes

\* The streams: one to three frames, and one or two frames followed by the
\* first bytes of an ACK that has not arrived completely.
Streams ==
    LET short == StreamFrames \cup {f1 \o f2 : f1, f2 \in StreamFrames}
        all == short
               \cup {f1 \o f2 \o f3 : f1, f2, f3 \in StreamFrames}
               \cup {w \o SubSeq(AckFrame(U32(1)), 1, 5) : w \in short}
    IN {s \in all : Len(s) <= MaxStreamLen}

InitChunks ==
    /\ cobs_in \in Streams
    /\ cobs_frame = <<>>
    /\ cobs_out = <<>>
    /\ cobs_pc = "stream"
    /\ MsgIdle
    /\ EncIdle
    /\ AppNew
    /\ seq_counter = U32(1)
    /\ link = <<>>
    /\ buffer = <<>>
    /\ responses = <<>>
    /\ created = 0
    /\ rx_calls = 0
    /\ rx_data = <<>>
    /\ rx_pos = 0
    /\ clock = 0
    /\ pc = "idle"
    /\ call = NoCall
    /\ expected_seq = U32(0)
    /\ snapshot = <<>>
    /\ waited = 0
    /\ wait_base = 0
    /\ matched = NoResponse
    /\ ack_result = FALSE
    /\ ret = "none"

\* The serial port hands the first n bytes of the stream to data_received.
FirstChunk(n) ==
    /\ rx_calls = 0
    /\ DataReceived(SubSeq(cobs_in, 1, n))

\* The serial port hands the rest of the stream to data_received.
RestChunk ==
    /\ rx_calls = 1
    /\ DataReceived(SubSeq(cobs_in, Len(rx_data) + 1, Len(cobs_in)))

NextChunks ==
    \/ \E n \in 0..Len(cobs_in) : FirstChunk(n)
    \/ RestChunk
    \/ DataReceivedLoop
    \/ ClockTick

SpecChunks == InitChunks /\ [][NextChunks]_vars

(***************************************************************************)
(* The reader and the chunking of the stream                                *)
(***************************************************************************)
\* What a response sequence says, timestamps and identities aside.
Content(rs) ==
    [k \in 1..Len(rs) |-> [msg_type |-> rs[k].msg_type, seq |-> rs[k].seq,
                           payload |-> rs[k].payload]]

\* The reader after one data_received call with the whole stream.
OneCall ==
    data_received_loop(cobs_in, 1, [buffer |-> <<>>, responses |-> <<>>,
                                    created |-> 0, clock |-> 0])

\* The whole stream has been handed to data_received.
StreamConsumed ==
    /\ rx_pos = Len(rx_data)
    /\ \/ rx_calls = 2
       \/ rx_calls = 1 /\ Len(rx_data) = Len(cobs_in)

\* C32: the sequence of responses the reader produces for a byte stream
\* (message types, sequence numbers and payloads, in order) does not depend
\* on how the stream is split into data_received calls.
C32_ChunkingIndependent ==
    StreamConsumed =>
        /\ Content(responses) = Content(OneCall.responses)
        /\ buffer = OneCall.buffer

\* The stream was handed over in two calls, split inside a frame.
SplitInsideFrame ==
    /\ rx_calls = 2
    /\ rx_pos = Len(rx_data)
    /\ Len(rx_data) > 0
    /\ Len(rx_data) < Len(cobs_in)
    /\ cobs_in[Len(cobs_in) - Len(rx_data)] # DELIMITER

\* A stream was split inside a frame, the two calls were served at different
\* times, and the reader produced an ACK and a force sample from it.
C32_Witness ==
    /\ SplitInsideFrame
    /\ Len(responses) = 2
    /\ responses[1].msg_type = MSG_ACK
    /\ responses[2].msg_type = DATA_FORCE
    /\ responses[1].t # responses[2].t



(***************************************************************************)
(* SpecBoth: one caller thread using the force engine, the reed engine,    *)
(* the LEDs and clearResponses of one device, and the reader thread.        *)
(***************************************************************************)
\* The ACK of command q.
BothAcks == [q \in {U32(k) : k \in 1..MaxSends} |-> AckFrame(q)]

\* A white force sample and a snapshot with hole 4 inserted, in one chunk.
BothData == DataFrame(U32(0)) \o ReedFrame(<<16, 0, 0>>)

\* What the serial port may hand to one data_received call: the ACK of a
\* command that was sent, or the data of both engines.
BothChunks == {BothAcks[q] : q \in SentSeqs} \cup {BothData}

\* The apparatus is new, or startForceMeasurement(50, 'Both') has just
\* returned True on a new apparatus: its command is on the link, its ACK was
\* received and removed, the engine is Measuring and the status is STARTED.
\* rx_calls counts the data_received calls from here on.
InitBoth ==
    /\ CobsIdle
    /\ MsgIdle
    /\ EncIdle
    /\ now = 0
    /\ last_send_time = 0
    /\ session_base = 0
    /\ unscanned = {}
    /\ reed = ReedNew
    /\ buffer = <<>>
    /\ responses = <<>>
    /\ rx_calls = 0
    /\ rx_data = <<>>
    /\ rx_pos = 0
    /\ clock = 0
    /\ pc = "idle"
    /\ call = NoCall
    /\ expected_seq = U32(0)
    /\ snapshot = <<>>
    /\ waited = 0
    /\ wait_base = 0
    /\ matched = NoResponse
    /\ ack_result = FALSE
    /\ \/ /\ force = ForceNew
          /\ status = "NOT_STARTED"
          /\ seq_counter = U32(1)
          /\ link = <<>>
          /\ created = 0
          /\ ret = "none"
       \/ /\ force = ForceStarted
          /\ status = "STARTED"
          /\ seq_counter = U32(2)
          /\ link = <<ForceStartCommand>>
          /\ created = 1
          /\ ret = "True"

NextBoth ==
    \/ \E data \in BothChunks : DataReceived(data)
    \/ DataReceivedLoop
    \/ StartForceMeasurement(50, <<66, 111, 116, 104>>)
    \/ StartForceCount
    \/ StartForceSend
    \/ StartForceReturn
    \/ UpdateForceMeasurement
    \/ StopForceMeasurement
    \/ StopForceReturn
    \/ StartReedMeasurement(100, [kind |-> "list", v |-> <<9, 4>>])
    \/ StartReedCount
    \/ StartReedSend
    \/ UpdateReedMeasurement
    \/ StopReedMeasurement
    \/ ShowLeds(TRUE)
    \/ ShowLedsReturn
    \/ ClearResponses
    \/ WaitTimeout
    \/ WaitSnapshot
    \/ WaitMatch
    \/ WaitSleep
    \/ Tick

SpecBoth == InitBoth /\ [][NextBoth]_vars

(***************************************************************************)
(* setLedColors with show and wait_ack                                      *)
(***************************************************************************)
\* The wait that just ended found the ACK of the last message sent.
LastAcked ==
    /\ matched # NoResponse
    /\ matched.msg_type = MSG_ACK
    /\ matched.seq = link[Len(link)].seq

\* setLedColors(show=True, wait_ack=True) is past the wait for its LED-set.
SetWaitOver == pc = "ack_done" /\ call.name = "setLedColors" /\ call.show

\* setLedColors is past the wait for the LED-show it sent.
ShowWaitOver == pc = "ack_done" /\ call.stage = "set_show"

\* C33: in setLedColors with show and wait_ack, the LED-show is sent only
\* after the LED-set was acknowledged and carries the next sequence number;
\* if the LED-set is NACKed or times out, no LED-show is sent and the call
\* returns False; the call returns True only if both commands were
\* acknowledged.
C33_ShowAfterSetAck ==
    /\ [][SetWaitOver /\ link' # link =>
              /\ LastAcked
              /\ link[Len(link)].msg_type = CMD_LED_SET_N
              /\ link' = Append(link, link'[Len(link')])
              /\ link'[Len(link')].msg_type = CMD_LED_SHOW
              /\ link'[Len(link')].seq = SeqAfter(link[Len(link)].seq)
              /\ call'.stage = "set_show"]_vars
    /\ [][SetWaitOver /\ ~LastAcked /\ pc' # pc =>
              link' = link /\ pc' = "idle" /\ ret' = "False"]_vars
    /\ [](call.stage = "set_show" =>
              /\ Len(link) >= 2
              /\ link[Len(link) - 1].msg_type = CMD_LED_SET_N
              /\ link[Len(link)].msg_type = CMD_LED_SHOW)
    /\ [][ShowWaitOver /\ pc' # pc =>
              pc' = "idle" /\ ret' = Bool(LastAcked) /\ link' = link]_vars
    /\ [][SetWaitOver => ret' # "True"]_vars

\* The LED-set was acknowledged, the LED-show was sent with the sequence
\* number that follows SEQ_MAX, and its ACK has been found.
C33_Witness ==
    /\ ShowWaitOver
    /\ LastAcked
    /\ link[Len(link) - 1].seq = SEQ_MAX
    /\ link[Len(link)].seq = U32(1)


(***************************************************************************)
(* Properties of the two engines on one device                              *)
(***************************************************************************)
\* Nothing was sent and nothing of the engines, the status or the shared
\* list changed.
NothingDone ==
    /\ link' = link
    /\ seq_counter' = seq_counter
    /\ force' = force
    /\ reed' = reed
    /\ status' = status
    /\ responses' = responses

\* C34: stopForceMeasurement and stopReedMeasurement called while the
\* respective engine is not Measuring return True, send no command, consume
\* no sequence number and leave the state of both engines (series,
\* counters, summary, cursor), the status and the shared list unchanged.
C34_StopWhenIdle ==
    /\ [][StopForceMeasurement /\ ~force.measuring =>
              pc' = "idle" /\ ret' = "True" /\ NothingDone]_vars
    /\ [][StopReedMeasurement /\ ~reed.measuring =>
              pc' = "idle" /\ ret' = "True" /\ NothingDone]_vars

\* A stop was called on an apparatus whose engines never measured: it
\* returned True and the link is empty.
C34_Witness ==
    /\ pc = "idle"
    /\ ret = "True"
    /\ link = <<>>
    /\ status = "NOT_STARTED"
    /\ ~force.measuring
    /\ ~reed.measuring


\* C35: in every reachable state, under any sequence of force and reed
\* start/update/stop calls, LED commands and clearResponses on one device,
\* each engine's cursor is at most the number of responses in the shared
\* response list.
C35_CursorWithinList ==
    /\ force.start_response_count <= Len(responses)
    /\ reed.start_response_count <= Len(responses)


(***************************************************************************)
(* More properties of the reed engine                                       *)
(***************************************************************************)
\* The most that the intervals of hole h can have added to its duration when
\* each is added once: the closed intervals of the recorded events, and the
\* open interval up to the present reading of the process-wide clock.
IntervalsOnce(r, h) ==
    LET events == EventsOf(r, h)
    IN ClosedTime(events, Len(events))
       + (IF Open(r, h) THEN now - r.last_insert_time[h][1] ELSE 0)

\* C36: within one reed session each insertion interval is added to a
\* hole's cumulative duration at most once, over any sequence of updates and
\* stop calls, including a stopReedMeasurement whose stop command is NACKed
\* or times out followed by further updates or another stopReedMeasurement:
\* the duration never exceeds the sum of the hole's intervals.
C36_IntervalAddedOnce ==
    \A h \in Monitored(reed) : reed.active_durations[h] <= IntervalsOnce(reed, h)


\* C37: in every state of a reed session, for each monitored hole the
\* insertions minus the removals equal the remembered state (0 or 1), the
\* number of recorded events equals the insertions plus the removals, and
\* the hole's events alternate between insertion and removal, starting with
\* an insertion.
C37_EventsAlternate ==
    \A h \in Monitored(reed) :
        LET events == EventsOf(reed, h)
        IN /\ reed.last_states[h] \in {0, 1}
           /\ reed.insertion_counts[h] - reed.removal_counts[h] = reed.last_states[h]
           /\ Len(events) = reed.insertion_counts[h] + reed.removal_counts[h]
           /\ \A k \in 1..Len(events) : events[k][2] = k % 2


(***************************************************************************)
(* The status of the apparatus                                              *)
(***************************************************************************)
\* C38: in every reachable state the status of the apparatus is STARTED
\* whenever the force engine or the reed engine is Measuring; stopping one
\* engine does not mark the apparatus FINISHED while the other engine is
\* still Measuring.
C38_StartedWhileMeasuring ==
    /\ [](force.measuring \/ reed.measuring => status = "STARTED")
    /\ [][ForceStopReturns /\ reed.measuring => status' # "FINISHED"]_vars
    /\ [][ReedStopReturns /\ force.measuring => status' # "FINISHED"]_vars


(***************************************************************************)
(* The length of an accepted message.                                       *)
(***************************************************************************)
\* C39: whenever parse_message accepts the bytes it was handed, the payload
\* it returns has exactly payload_len bytes and the bytes handed in are
\* exactly HEADER_SIZE + payload_len; a message with its end cut off or
\* with a byte added is not accepted.
C39_AcceptedLengthExact ==
    (msg_pc = "parsed" /\ msg_parsed # None) =>
        /\ Len(msg_parsed[2]) = msg_parsed[1].payload_len
        /\ Len(msg_raw) = HEADER_SIZE + msg_parsed[1].payload_len


(***************************************************************************)
(* The outcome of startForceMeasurement and the state of the engine.        *)
(***************************************************************************)
\* C40: whenever a startForceMeasurement returns, whether the engine was
\* Idle or Measuring when it was called, the engine is Measuring exactly
\* when the call returns True: after a start that returns False the engine
\* is not Measuring.
C40_MeasuringIffStartTrue ==
    [][(StartWaitOver /\ pc' = "idle") =>
            /\ ret' \in {"True", "False"}
            /\ force'.measuring <=> ret' = "True"]_vars

=============================================================================
